---- MODULE Spec2Model ----
(***************************************************************************)
(* Model of the aggregation-and-caching core of the social media          *)
(* analytics service: DataService (src/src/services/data-servise.tsx) and  *)
(* the ApiClient.fetchAllData call it depends on (src/src/lib/api.tsx).    *)
(*                                                                         *)
(* The specifications share the variables:                                 *)
(*   Spec     the refresh coordinator: concurrent accessor calls, the      *)
(*            background timer, the single-flight guard and the clock;     *)
(*   SpecLive Spec with the fairness of the event loop: every fetch is     *)
(*            answered and every continuation runs;                        *)
(*   SpecLoop the coordinator with the background loop started when the    *)
(*            service was constructed;                                     *)
(*   SpecUp   SpecLoop while every upstream fetch succeeds;                *)
(*   SpecApi  the upstream client: the token, its expiry and the three     *)
(*            parallel GETs of fetchAllData;                               *)
(*   SpecAgg  one refresh over every snapshot of a bounded family, for     *)
(*            the three aggregation functions;                             *)
(*   SpecEng  one request to an engagement endpoint of                     *)
(*            src/src/lib/types.tsx (getPopularPosts, getTrendingTopics,   *)
(*            getUserEngagementComparison) over bounded families of        *)
(*            stores and requests.                                         *)
(*                                                                         *)
(* Ids (User.id, Post.id, Post.userId, Comment.postId) are TypeScript      *)
(* strings that the code only compares for equality and uses as Map keys;  *)
(* they are modelled by natural numbers.  Fields the code never reads      *)
(* (email, title, content, Comment.userId, Comment.timestamp) are left     *)
(* out of the records.                                                     *)
(***************************************************************************)
EXTENDS Integers, Sequences, FiniteSets, Bags, TLC

VARIABLES
    now,            \* Date.now(), in ms, counted from an origin before the process started
    cache,          \* DataService.cache: [rawData, computed, lastFetched]
    refreshPromise, \* DataService.refreshPromise: 0 for null, else the id of a promise
    promiseState,   \* per performRefresh() promise: "unborn", "pending", "ok", the error it
                    \* rejected with, or "collected" once settled and no longer referenced
    calls,          \* the outstanding calls of the public methods, a bag of records
                    \* [pc, forced, role, awaiting]: pc is "hit" (refreshData returned at
                    \* once) or "waiting"; forced is the argument of refreshData; role is
                    \* "none", "starter" (created the promise) or "joiner"; awaiting is
                    \* the id of the promise the call awaits (0 when none)
    ret,            \* what the step just taken handed to a caller: the method, the role of
                    \* the call, the outcome and the value (NoRet when the step completed no call)
    timerOn,        \* startBackgroundRefresh() has been called
    nextTick,       \* earliest time at which the interval callback runs next
    db,             \* the store behind prisma: [users, posts], posts in the order in
                    \* which findMany returns them
    req,            \* the request given to an engagement endpoint: the endpoint, the
                    \* raw period, limit and userId parameters, and the date of new Date()
    locals,         \* the local variables of the handler of req, with its position (stage)
    res,            \* the response of the handler (NoRes until it has responded)
    deletes,        \* posts deleted from the store while the handler was running
    authToken,      \* ApiClient.authToken: 0 for null, else the number of the access
                    \* token, the tokens being numbered in the order the client stored them
    tokenExpiry,    \* ApiClient.tokenExpiry, in ms
    gets,           \* per fetchAllData call and endpoint, the authenticatedGet call, until
                    \* a later fetchAllData call finds it over:
                    \* [pc, bearer]: pc is "idle", "authenticating" (POST /auth sent),
                    \* "getting" (GET sent), "done" or "failed"; bearer is the token of
                    \* the Authorization header of the GET (0 while no GET was sent)
    fetchAll        \* per fetchAllData call: its promise ("unborn", "pending", "ok" or
                    \* the error it rejected with) and the POST /auth requests it sent

coordVars == <<now, cache, refreshPromise, promiseState, calls, ret, timerOn, nextTick>>

engVars == <<db, req, locals, res, deletes>>

apiVars == <<authToken, tokenExpiry, gets, fetchAll>>

(* The DataService fields, without the clock *)
dataVars == <<cache, refreshPromise, promiseState, calls, ret, timerOn, nextTick>>

vars == <<now, cache, refreshPromise, promiseState, calls, ret, timerOn, nextTick,
          db, req, locals, res, deletes,
          authToken, tokenExpiry, gets, fetchAll>>

-----------------------------------------------------------------------------
(* Program constants *)

CACHE_DURATION == 10 * 1000

TOKEN_BUFFER == 60000      \* isTokenValid: 1 minute buffer

ApiEndpoints == {"users", "posts", "comments"}

TopN == 5

(* Bounds of the model *)

MaxUsers == 6          \* users in a snapshot of the top-users family
MaxUserPosts == 3      \* posts in a snapshot of the top-users family
MaxPosts == 6          \* posts in a snapshot of the latest-posts family
MaxPostComments == 2   \* comments in a snapshot of the latest-posts family
MaxPopPosts == 3       \* posts in a snapshot of the popular-posts family
MaxPopComments == 3    \* comments in a snapshot of the popular-posts family
NumCalls == 2          \* calls of the public methods that can be outstanding together
MaxFetches == 2        \* performRefresh() invocations in one behaviour
MaxAdvance == 2        \* clock steps in one behaviour
MaxFetchAlls == 1      \* fetchAllData calls in one behaviour of the client
MaxApiAdvance == 2     \* clock steps in one behaviour of the client
MaxStragglers == 0     \* requests of rejected calls still awaited when fetchAllData is called
MaxWindowPosts == 1    \* posts in a store of the window family
MaxRankPosts == 4      \* posts in a store of the rank family
MaxTopicPosts == 2     \* posts in a store of the topic family
MaxCmpPosts == 3       \* posts in a store of the comparison family
MaxDeletes == 1        \* posts deleted while a handler is running

-----------------------------------------------------------------------------
(* Small helpers *)

Min(a, b) == IF a <= b THEN a ELSE b

Front(s) == SubSeq(s, 1, Len(s) - 1)

Last(s) == s[Len(s)]

SeqsUpTo(S, n) == UNION {[1..k -> S] : k \in 0..n}

(* userName of a post whose author is not in the snapshot:
   userMap.get(post.userId)?.name evaluates to undefined *)
undefined == "undefined"

-----------------------------------------------------------------------------
(* JavaScript building blocks used by the aggregation code *)

(* new Map<string, number>() and map.get(k) || 0, map.set(k, v) *)
EmptyMap == [k \in {} |-> 0]

MapGetOr0(m, k) == IF k \in DOMAIN m THEN m[k] ELSE 0

MapSet(m, k, v) == [x \in (DOMAIN m) \cup {k} |-> IF x = k THEN v ELSE m[x]]

(* The timestamp strings of the model and new Date(s).getTime() on them.
   getTime() is in ms since the epoch; the values here are in minutes since
   the epoch (every string below is a whole minute), which keeps them within
   TLC's integers and keeps every comparison the code makes.  Two strings
   denote the same instant, and the lexicographic order of the strings is
   not the order of the instants. *)
Timestamps ==
    { "2024-03-01T10:00:00Z", "2024-03-01T12:00:00+03:00", "2024-03-01T05:00:00-05:00" }

DateGetTime(s) ==
    CASE s = "2024-03-01T10:00:00Z"      -> 28488120
      [] s = "2024-03-01T12:00:00+03:00" -> 28488060
      [] s = "2024-03-01T05:00:00-05:00" -> 28488120

(* The comparators handed to Array.prototype.sort *)
Compare(by, a, b) ==
    CASE by = "postCount" -> b.postCount - a.postCount
      [] by = "timestamp" -> DateGetTime(b.timestamp) - DateGetTime(a.timestamp)
      [] by = "engagement" ->
            IF b.engagementMetrics.totalEngagements = a.engagementMetrics.totalEngagements
            THEN b.engagementMetrics.engagementRate - a.engagementMetrics.engagementRate
            ELSE b.engagementMetrics.totalEngagements - a.engagementMetrics.totalEngagements
      [] by = "engagementScore" -> b.engagementScore - a.engagementScore
      [] by = "rate" -> a.num * b.den - b.num * a.den

(* Array.prototype.sort(compare): a stable sort (ECMAScript 2019).  x is put
   behind every element e already placed with compare(e, x) <= 0. *)
StableInsert(sorted, x, by) ==
    LET k == Cardinality({i \in 1..Len(sorted) : Compare(by, sorted[i], x) <= 0})
    IN  SubSeq(sorted, 1, k) \o <<x>> \o SubSeq(sorted, k + 1, Len(sorted))

RECURSIVE ArraySort(_, _)
ArraySort(s, by) ==
    IF s = <<>> THEN <<>>
    ELSE StableInsert(ArraySort(Front(s), by), Last(s), by)

(* Array.prototype.slice(0, n) *)
Slice0(s, n) == SubSeq(s, 1, Min(n, Len(s)))

(* Array.prototype.filter, keeping the order *)
RECURSIVE FilterIdx(_, _)
FilterIdx(s, keep) ==
    IF s = <<>> THEN <<>>
    ELSE FilterIdx(Front(s), keep) \o (IF Len(s) \in keep THEN <<Last(s)>> ELSE <<>>)

-----------------------------------------------------------------------------
(* The aggregation functions of DataService *)

(* for (const post of posts) userPostCounts.set(userId, (get(userId) || 0) + 1) *)
RECURSIVE userPostCounts(_)
userPostCounts(posts) ==
    IF posts = <<>> THEN EmptyMap
    ELSE LET m == userPostCounts(Front(posts))
             userId == Last(posts).userId
         IN  MapSet(m, userId, MapGetOr0(m, userId) + 1)

(* comments.forEach(c => postCommentCounts.set(postId, (get(postId) || 0) + 1)) *)
RECURSIVE postCommentCounts(_)
postCommentCounts(comments) ==
    IF comments = <<>> THEN EmptyMap
    ELSE LET m == postCommentCounts(Front(comments))
             postId == Last(comments).postId
         IN  MapSet(m, postId, MapGetOr0(m, postId) + 1)

(* users.forEach(user => userMap.set(user.id, user)): a later user with the
   same id replaces an earlier one *)
RECURSIVE userMap(_)
userMap(users) ==
    IF users = <<>> THEN EmptyMap
    ELSE MapSet(userMap(Front(users)), Last(users).id, Last(users))

userNameOf(um, userId) == IF userId \in DOMAIN um THEN um[userId].name ELSE undefined

withStats(post, counts, um) ==
    [id |-> post.id, userId |-> post.userId, timestamp |-> post.timestamp,
     commentCount |-> MapGetOr0(counts, post.id),
     userName |-> userNameOf(um, post.userId)]

computeTopUsers_NoSort(raw) ==
    LET counts == userPostCounts(raw.posts)
        usersWithCounts ==
            [i \in 1..Len(raw.users) |->
                [id |-> raw.users[i].id, name |-> raw.users[i].name,
                 postCount |-> MapGetOr0(counts, raw.users[i].id)]]
    IN  Slice0(usersWithCounts, TopN)

computeTopUsers(raw) ==
    LET counts == userPostCounts(raw.posts)
        usersWithCounts ==
            [i \in 1..Len(raw.users) |->
                [id |-> raw.users[i].id, name |-> raw.users[i].name,
                 postCount |-> MapGetOr0(counts, raw.users[i].id)]]
    IN  Slice0(ArraySort(usersWithCounts, "postCount"), TopN)

computeLatestPosts_NoSort(raw) ==
    LET um == userMap(raw.users)
        counts == postCommentCounts(raw.comments)
        top == Slice0(raw.posts, TopN)
    IN  [i \in 1..Len(top) |-> withStats(top[i], counts, um)]

computeLatestPosts(raw) ==
    LET um == userMap(raw.users)
        counts == postCommentCounts(raw.comments)
        top == Slice0(ArraySort(raw.posts, "timestamp"), TopN)
    IN  [i \in 1..Len(top) |-> withStats(top[i], counts, um)]

(* let maxCommentCount = 0; for (const count of postCommentCounts.values()) ... *)
maxCommentCount(counts) ==
    LET values == {counts[k] : k \in DOMAIN counts} \cup {0}
    IN  CHOOSE m \in values : \A v \in values : v <= m

computePopularPosts(raw) ==
    LET um == userMap(raw.users)
        counts == postCommentCounts(raw.comments)
        max == maxCommentCount(counts)
        kept == FilterIdx(raw.posts,
                    {i \in 1..Len(raw.posts) : MapGetOr0(counts, raw.posts[i].id) = max})
    IN  [i \in 1..Len(kept) |-> withStats(kept[i], counts, um)]

-----------------------------------------------------------------------------
(* The cache and performRefresh *)

EmptyRaw == [users |-> <<>>, posts |-> <<>>, comments |-> <<>>]

(* The cache the constructor builds *)
InitCache ==
    [rawData |-> EmptyRaw,
     computed |-> [topUsers |-> <<>>, latestPosts |-> <<>>, popularPosts |-> <<>>],
     lastFetched |-> 0]

(* Mutant: the views are computed before the new raw data is stored *)
performRefreshOk_StaleViews(c, data, t) ==
    [rawData |-> data,
     computed |-> [topUsers |-> computeTopUsers(c.rawData),
                   latestPosts |-> computeLatestPosts(c.rawData),
                   popularPosts |-> computePopularPosts(c.rawData)],
     lastFetched |-> t]

(* Mutant: the new posts are added to the posts already held before the
   views are computed *)
performRefreshOk_Incremental(c, data, t) ==
    LET merged == [data EXCEPT !.posts = c.rawData.posts \o data.posts]
    IN  [rawData |-> data,
         computed |-> [topUsers |-> computeTopUsers(merged),
                       latestPosts |-> computeLatestPosts(data),
                       popularPosts |-> computePopularPosts(data)],
         lastFetched |-> t]

(* performRefresh after fetchAllData() has resolved with data, run at time t:
   no await separates its assignments, so it is one step *)
performRefreshOk(c, data, t) ==
    [rawData |-> data,
     computed |-> [topUsers |-> computeTopUsers(data),
                   latestPosts |-> computeLatestPosts(data),
                   popularPosts |-> computePopularPosts(data)],
     lastFetched |-> t]

getCacheExpiry == cache.lastFetched + CACHE_DURATION

(* Mutant: the cache still counts as fresh at its expiry time *)
isCacheFresh_Inclusive == cache.lastFetched > 0 /\ now <= getCacheExpiry

(* Mutant: the cache counts as fresh for twice the cache duration *)
isCacheFresh_TwiceAsLong == cache.lastFetched > 0 /\ now < getCacheExpiry + CACHE_DURATION

isCacheFresh == cache.lastFetched > 0 /\ now < getCacheExpiry

-----------------------------------------------------------------------------
(* The refresh coordinator: state *)

Promises == 1..MaxFetches

Accessors == {"getTopUsers", "getLatestPosts", "getPopularPosts"}

(* What ApiClient.fetchAllData() can reject with: Promise.all rejects with the
   error of the first of getUsers/getPosts/getComments to reject, each of
   which fails in authenticate() or in its own axios.get *)
Errors == {"AuthError", "UpstreamFetchError"}

(* The clock: Date.now() of a running system is far more than CACHE_DURATION
   past its origin; it is observed at steps of half the cache duration *)
StartTime == CACHE_DURATION

TimeStep == CACHE_DURATION \div 2

MaxNow == StartTime + MaxAdvance * TimeStep

user(i) == [id |-> i, name |-> IF i % 2 = 1 THEN "Ann" ELSE "Bob"]

post(i, userId, timestamp) == [id |-> i, userId |-> userId, timestamp |-> timestamp]

comment(postId) == [postId |-> postId]

(* What fetchAllData() can resolve with in the coordinator specification *)
SnapshotA ==
    [users |-> <<user(1), user(2)>>,
     posts |-> <<post(1, 1, "2024-03-01T12:00:00+03:00"), post(2, 2, "2024-03-01T10:00:00Z")>>,
     comments |-> <<comment(1)>>]

SnapshotB ==
    [users |-> <<user(1), user(2)>>,
     posts |-> <<post(1, 1, "2024-03-01T12:00:00+03:00"), post(2, 2, "2024-03-01T10:00:00Z"),
                 post(3, 2, "2024-03-01T05:00:00-05:00")>>,
     comments |-> <<comment(1), comment(3), comment(3)>>]

UpstreamSnapshots == {SnapshotA, SnapshotB}

NoRet == [kind |-> "none", role |-> "none", status |-> "none", value |-> <<>>]

call(pc, forced, role, awaiting) ==
    [pc |-> pc, forced |-> forced, role |-> role, awaiting |-> awaiting]

Outstanding == BagToSet(calls)

(* No request to an engagement endpoint *)
NoReq == [endpoint |-> "none"]

NoLocals == [stage |-> "none"]

NoRes == [status |-> 0]

EmptyDb == [users |-> {}, posts |-> <<>>]

ApiCalls == 1..MaxFetchAlls

ApiStep == 30 * 1000

ExpiresIn == {0, 90}

IdleGet == [pc |-> "idle", bearer |-> 0]

(* new ApiClient(credentials): no token *)
InitClient ==
    /\ authToken = 0
    /\ tokenExpiry = 0
    /\ gets = [x \in ApiCalls \X ApiEndpoints |-> IdleGet]
    /\ fetchAll = [k \in ApiCalls |-> [status |-> "unborn", auths |-> 0]]

InitCoord ==
    /\ InitClient
    /\ now = StartTime
    /\ cache = InitCache
    /\ refreshPromise = 0
    /\ promiseState = [p \in Promises |-> "unborn"]
    /\ calls = EmptyBag
    /\ ret = NoRet
    /\ timerOn = FALSE
    /\ nextTick = 0

Init ==
    /\ InitCoord
    /\ db = EmptyDb
    /\ req = NoReq
    /\ locals = NoLocals
    /\ res = NoRes
    /\ deletes = 0

-----------------------------------------------------------------------------
(* The refresh coordinator: operations *)

Settled(p) == promiseState[p] \in {"ok"} \cup Errors

(* The job that settled the guard's promise has not yet run to completion:
   the continuation of the call that created the promise (its finally block)
   is a microtask queued by the settlement, and no request handler, timer
   callback or other reaction runs before it *)
Settling == refreshPromise # 0 /\ Settled(refreshPromise)

(* Microtasks are queued: reactions to a settled promise, or the
   continuation of a call whose refreshData() returned at once.  The event
   loop runs them all before it takes the next timer or network callback,
   and the clock of the model (steps of seconds) does not move meanwhile. *)
Draining ==
    \/ \E p \in Promises : Settled(p)
    \/ \E c \in Outstanding : c.pc = "hit"

(* Another call can be made *)
Room == BagCardinality(calls) < NumCalls

Unborn == {p \in Promises : promiseState[p] = "unborn"}

(* Mutant: refreshData without the single-flight guard *)
refreshData_NoGuard(force) ==
    IF ~force /\ isCacheFresh
    THEN /\ calls' = calls (+) SetToBag({call("hit", force, "none", 0)})
         /\ UNCHANGED <<refreshPromise, promiseState>>
    ELSE /\ Unborn # {}
         /\ LET p == CHOOSE q \in Unborn : \A r \in Unborn : q <= r
            IN  /\ refreshPromise' = p
                /\ promiseState' = [promiseState EXCEPT ![p] = "pending"]
                /\ calls' = calls (+) SetToBag({call("waiting", force, "starter", p)})

(* refreshData(force) up to its first await: the freshness check, the
   single-flight guard, and the synchronous start of performRefresh() (which
   calls fetchAllData() before it first awaits).  The call joins the
   outstanding ones. *)
refreshData(force) ==
    IF ~force /\ isCacheFresh
    THEN /\ calls' = calls (+) SetToBag({call("hit", force, "none", 0)})
         /\ UNCHANGED <<refreshPromise, promiseState>>
    ELSE IF refreshPromise # 0
    THEN /\ calls' = calls (+) SetToBag({call("waiting", force, "joiner", refreshPromise)})
         /\ UNCHANGED <<refreshPromise, promiseState>>
    ELSE /\ Unborn # {}
         /\ LET p == CHOOSE q \in Unborn : \A r \in Unborn : q <= r
            IN  /\ refreshPromise' = p
                /\ promiseState' = [promiseState EXCEPT ![p] = "pending"]
                /\ calls' = calls (+) SetToBag({call("waiting", force, "starter", p)})

(* getTopUsers() / getLatestPosts() / getPopularPosts() up to their
   await this.refreshData(): the three methods differ only in the view they
   return afterwards, so which of them made the call is resolved when the
   call returns (see complete) *)
CallAccessor ==
    /\ Room
    /\ ~Settling
    /\ refreshData(FALSE)
    /\ ret' = NoRet
    /\ UNCHANGED <<now, cache, timerOn, nextTick>>

(* startBackgroundRefresh(): setInterval(..., CACHE_DURATION) *)
startBackgroundRefresh ==
    /\ ~timerOn
    /\ timerOn' = TRUE
    /\ nextTick' = now + CACHE_DURATION
    /\ ret' = NoRet
    /\ UNCHANGED <<now, cache, refreshPromise, promiseState, calls>>

(* Mutant: the interval callback only lets the interval pass *)
BackgroundTick_Idle ==
    /\ timerOn
    /\ now >= nextTick
    /\ Room
    /\ ~Draining
    /\ nextTick' = now + CACHE_DURATION
    /\ ret' = NoRet
    /\ UNCHANGED <<now, cache, timerOn, refreshPromise, promiseState, calls>>

(* Mutant: the interval callback refreshes only a cache that is not fresh *)
BackgroundTick_Unforced ==
    /\ timerOn
    /\ now >= nextTick
    /\ Room
    /\ ~Draining
    /\ nextTick' = now + CACHE_DURATION
    /\ refreshData(FALSE)
    /\ ret' = NoRet
    /\ UNCHANGED <<now, cache, timerOn>>

(* The interval callback: this.refreshData(true).catch(log).  It runs no
   earlier than CACHE_DURATION after the previous run started. *)
BackgroundTick ==
    /\ timerOn
    /\ now >= nextTick
    /\ Room
    /\ ~Draining
    /\ nextTick' = now + CACHE_DURATION
    /\ refreshData(TRUE)
    /\ ret' = NoRet
    /\ UNCHANGED <<now, cache, timerOn>>

(* fetchAllData() resolves with data and performRefresh runs to its end *)
FetchSucceeds(p, data) ==
    /\ promiseState[p] = "pending"
    /\ ~Draining
    /\ cache' = performRefreshOk(cache, data, now)
    /\ promiseState' = [promiseState EXCEPT ![p] = "ok"]
    /\ ret' = NoRet
    /\ UNCHANGED <<now, refreshPromise, calls, timerOn, nextTick>>

(* Mutant: a failed refresh evicts the cache *)
FetchFails_Evicts(p, e) ==
    /\ promiseState[p] = "pending"
    /\ ~Draining
    /\ promiseState' = [promiseState EXCEPT ![p] = e]
    /\ cache' = InitCache
    /\ ret' = NoRet
    /\ UNCHANGED <<now, refreshPromise, calls, timerOn, nextTick>>

(* Mutant: a failed refresh still stamps the cache as fetched *)
FetchFails_Stamps(p, e) ==
    /\ promiseState[p] = "pending"
    /\ ~Draining
    /\ promiseState' = [promiseState EXCEPT ![p] = e]
    /\ cache' = [cache EXCEPT !.lastFetched = now]
    /\ ret' = NoRet
    /\ UNCHANGED <<now, refreshPromise, calls, timerOn, nextTick>>

(* fetchAllData() rejects with e: performRefresh logs and rethrows *)
FetchFails(p, e) ==
    /\ promiseState[p] = "pending"
    /\ ~Draining
    /\ promiseState' = [promiseState EXCEPT ![p] = e]
    /\ ret' = NoRet
    /\ UNCHANGED <<now, cache, refreshPromise, calls, timerOn, nextTick>>

viewOf(k) ==
    CASE k = "getTopUsers" -> cache.computed.topUsers
      [] k = "getLatestPosts" -> cache.computed.latestPosts
      [] k = "getPopularPosts" -> cache.computed.popularPosts

(* The public methods a call with this argument of refreshData can come from:
   the interval callback forces, the accessors do not *)
methodsOf(f) == IF f THEN {"background"} ELSE Accessors

(* What the caller of the outstanding call c gets once refreshData has ended
   with outcome o ("ok" or an error): an accessor returns its view or
   rethrows; the interval callback resolves to nothing or catches and logs.
   The call is no longer outstanding. *)
complete(c, o) ==
    /\ \E k \in methodsOf(c.forced) :
          ret' = [kind |-> k, role |-> c.role,
                  status |-> IF o = "ok" THEN "ok" ELSE "err",
                  value |-> IF o # "ok" THEN o
                            ELSE IF k = "background" THEN <<>> ELSE viewOf(k)]
    /\ calls' = calls (-) SetToBag({c})

(* A settled promise that neither the guard nor a call still refers to is
   forgotten once the call c has let go of it *)
release(c, guard) ==
    LET p == c.awaiting
    IN  IF guard # p /\ \A d \in BagToSet(calls (-) SetToBag({c})) : d.awaiting # p
        THEN promiseState' = [promiseState EXCEPT ![p] = "collected"]
        ELSE UNCHANGED promiseState

(* Mutant: the call that created the promise returns without the finally block *)
ResumeStarter_KeepsGuard(c) ==
    /\ c.pc = "waiting"
    /\ c.role = "starter"
    /\ Settled(c.awaiting)
    /\ refreshPromise' = refreshPromise
    /\ complete(c, promiseState[c.awaiting])
    /\ release(c, refreshPromise)
    /\ UNCHANGED <<now, cache, timerOn, nextTick>>

(* The call that created the promise resumes from await this.refreshPromise:
   finally { this.refreshPromise = null }, then the outcome reaches its caller *)
ResumeStarter(c) ==
    /\ c.pc = "waiting"
    /\ c.role = "starter"
    /\ Settled(c.awaiting)
    /\ refreshPromise' = 0
    /\ complete(c, promiseState[c.awaiting])
    /\ release(c, 0)
    /\ UNCHANGED <<now, cache, timerOn, nextTick>>

(* Mutant: a joining call swallows the rejection of the promise it joined *)
ResumeJoiner_Swallows(c) ==
    /\ c.pc = "waiting"
    /\ c.role = "joiner"
    /\ Settled(c.awaiting)
    /\ refreshPromise # c.awaiting
    /\ complete(c, "ok")
    /\ release(c, refreshPromise)
    /\ UNCHANGED <<now, cache, refreshPromise, timerOn, nextTick>>

(* A call that returned this.refreshPromise settles as that promise did.  Its
   reaction was registered on the promise after the starter's await, so it
   runs after the starter's finally. *)
ResumeJoiner(c) ==
    /\ c.pc = "waiting"
    /\ c.role = "joiner"
    /\ Settled(c.awaiting)
    /\ refreshPromise # c.awaiting
    /\ complete(c, promiseState[c.awaiting])
    /\ release(c, refreshPromise)
    /\ UNCHANGED <<now, cache, refreshPromise, timerOn, nextTick>>

(* Mutant: a call that hit the cache waits until no refresh is in flight *)
ReturnHit_AfterFlight(c) ==
    /\ c.pc = "hit"
    /\ refreshPromise = 0
    /\ complete(c, "ok")
    /\ UNCHANGED <<now, cache, refreshPromise, promiseState, timerOn, nextTick>>

(* An accessor whose refreshData() returned at once reads its view *)
ReturnHit(c) ==
    /\ c.pc = "hit"
    /\ complete(c, "ok")
    /\ UNCHANGED <<now, cache, refreshPromise, promiseState, timerOn, nextTick>>

(* Time passes *)
Advance ==
    /\ now + TimeStep <= MaxNow
    /\ ~Draining
    /\ now' = now + TimeStep
    /\ ret' = NoRet
    /\ UNCHANGED <<cache, refreshPromise, promiseState, calls, timerOn, nextTick>>

(* The DataService operations do not touch the engagement endpoints' state *)
Next ==
    \/ CallAccessor /\ UNCHANGED <<engVars, apiVars>>
    \/ startBackgroundRefresh /\ UNCHANGED <<engVars, apiVars>>
    \/ BackgroundTick /\ UNCHANGED <<engVars, apiVars>>
    \/ \E p \in Promises, d \in UpstreamSnapshots : FetchSucceeds(p, d) /\ UNCHANGED <<engVars, apiVars>>
    \/ \E p \in Promises, e \in Errors : FetchFails(p, e) /\ UNCHANGED <<engVars, apiVars>>
    \/ \E c \in Outstanding : ResumeStarter(c) /\ UNCHANGED <<engVars, apiVars>>
    \/ \E c \in Outstanding : ResumeJoiner(c) /\ UNCHANGED <<engVars, apiVars>>
    \/ \E c \in Outstanding : ReturnHit(c) /\ UNCHANGED <<engVars, apiVars>>
    \/ Advance /\ UNCHANGED <<engVars, apiVars>>

Spec == Init /\ [][Next]_vars

-----------------------------------------------------------------------------
(* The coordinator under fair scheduling.  The assumption of the liveness
   claims, that every upstream fetch eventually completes: no promise stays
   pending for ever.  And the event loop eventually runs the continuation of
   a call whose promise has settled and the return of a call that hit the
   cache. *)
Fairness ==
    /\ \A p \in Promises : []<>(promiseState[p] # "pending")
    /\ WF_vars((\E c \in Outstanding : ResumeStarter(c)) /\ UNCHANGED <<engVars, apiVars>>)
    /\ WF_vars((\E c \in Outstanding : ResumeJoiner(c)) /\ UNCHANGED <<engVars, apiVars>>)
    /\ WF_vars((\E c \in Outstanding : ReturnHit(c)) /\ UNCHANGED <<engVars, apiVars>>)

SpecLive == Init /\ [][Next]_vars /\ Fairness

-----------------------------------------------------------------------------
(* The background loop: a DataService whose startBackgroundRefresh() was
   called when it was constructed and that has not been read since, either
   just now (the first tick is CACHE_DURATION away) or CACHE_DURATION ago
   (the first tick is due) *)
InitLoop ==
    /\ InitClient
    /\ now = StartTime
    /\ cache = InitCache
    /\ refreshPromise = 0
    /\ promiseState = [p \in Promises |-> "unborn"]
    /\ calls = EmptyBag
    /\ ret = NoRet
    /\ timerOn = TRUE
    /\ nextTick \in {StartTime, StartTime + CACHE_DURATION}
    /\ db = EmptyDb
    /\ req = NoReq
    /\ locals = NoLocals
    /\ res = NoRes
    /\ deletes = 0

NextLoop ==
    \/ CallAccessor /\ UNCHANGED <<engVars, apiVars>>
    \/ BackgroundTick /\ UNCHANGED <<engVars, apiVars>>
    \/ \E p \in Promises, d \in UpstreamSnapshots : FetchSucceeds(p, d) /\ UNCHANGED <<engVars, apiVars>>
    \/ \E p \in Promises, e \in Errors : FetchFails(p, e) /\ UNCHANGED <<engVars, apiVars>>
    \/ \E c \in Outstanding : ResumeStarter(c) /\ UNCHANGED <<engVars, apiVars>>
    \/ \E c \in Outstanding : ResumeJoiner(c) /\ UNCHANGED <<engVars, apiVars>>
    \/ \E c \in Outstanding : ReturnHit(c) /\ UNCHANGED <<engVars, apiVars>>
    \/ Advance /\ UNCHANGED <<engVars, apiVars>>

SpecLoop == InitLoop /\ [][NextLoop]_vars

(* The background loop while the upstream is up: every fetch succeeds *)
NextUp ==
    \/ CallAccessor /\ UNCHANGED <<engVars, apiVars>>
    \/ BackgroundTick /\ UNCHANGED <<engVars, apiVars>>
    \/ \E p \in Promises, d \in UpstreamSnapshots : FetchSucceeds(p, d) /\ UNCHANGED <<engVars, apiVars>>
    \/ \E c \in Outstanding : ResumeStarter(c) /\ UNCHANGED <<engVars, apiVars>>
    \/ \E c \in Outstanding : ResumeJoiner(c) /\ UNCHANGED <<engVars, apiVars>>
    \/ \E c \in Outstanding : ReturnHit(c) /\ UNCHANGED <<engVars, apiVars>>
    \/ Advance /\ UNCHANGED <<engVars, apiVars>>

SpecUp == InitLoop /\ [][NextUp]_vars

-----------------------------------------------------------------------------
(* The upstream client: ApiClient *)

(* response.data.expires_in of POST /auth, in seconds; 0 stands for a
   response without the field (or with 0), replaced by 3600 *)
expiresInOf(e) == IF e = 0 THEN 3600 ELSE e

(* Mutant: the token counts as valid until it expires *)
isTokenValid_NoBuffer == authToken # 0 /\ now < tokenExpiry

(* isTokenValid(): !!authToken && Date.now() < tokenExpiry - 60000 *)
isTokenValid == authToken # 0 /\ now < tokenExpiry - TOKEN_BUFFER

(* The requests of which a response is still awaited *)
Awaited == {x \in ApiCalls \X ApiEndpoints : gets[x].pc \in {"authenticating", "getting"}}

(* Promise.all rejects with the first rejection; fetchAllData logs and rethrows it *)
rejectAll(k, e) ==
    IF fetchAll[k].status = "pending"
    THEN fetchAll' = [fetchAll EXCEPT ![k].status = e]
    ELSE UNCHANGED fetchAll

(* fetchAllData(): getUsers(), getPosts() and getComments() are called one
   after the other; each runs authenticatedGet up to its first await of a
   response.  ensureAuthenticated() tests isTokenValid(); with a valid token
   the GET is sent with Bearer authToken, otherwise authenticate() posts the
   credentials to /auth.  No response is handled in between, so the three
   tests see the same token. *)
fetchAllData(k) ==
    /\ fetchAll[k].status = "unborn"
    /\ \A j \in ApiCalls : j < k => fetchAll[j].status \notin {"unborn", "pending"}
    /\ Cardinality(Awaited) <= MaxStragglers
    /\ IF isTokenValid
       THEN /\ gets' = [x \in ApiCalls \X ApiEndpoints |->
                          IF x[1] = k THEN [pc |-> "getting", bearer |-> authToken]
                          ELSE IF x \in Awaited THEN gets[x] ELSE IdleGet]
            /\ fetchAll' = [fetchAll EXCEPT ![k] = [status |-> "pending", auths |-> 0]]
       ELSE /\ gets' = [x \in ApiCalls \X ApiEndpoints |->
                          IF x[1] = k THEN [pc |-> "authenticating", bearer |-> 0]
                          ELSE IF x \in Awaited THEN gets[x] ELSE IdleGet]
            /\ fetchAll' = [fetchAll EXCEPT ![k] = [status |-> "pending",
                                                    auths |-> Cardinality(ApiEndpoints)]]
    /\ UNCHANGED <<now, authToken, tokenExpiry>>

(* POST /auth answers with an access_token: authenticate() stores it with
   its expiry, ensureAuthenticated() returns and authenticatedGet sends the
   GET with Bearer authToken *)
AuthSucceeds(k, ep, e) ==
    /\ gets[k, ep].pc = "authenticating"
    /\ authToken' = authToken + 1
    /\ tokenExpiry' = now + expiresInOf(e) * 1000
    /\ gets' = [gets EXCEPT ![k, ep] = [pc |-> "getting", bearer |-> authToken']]
    /\ UNCHANGED <<now, fetchAll>>

(* POST /auth fails, or answers without an access_token ("Invalid
   authentication response"): authenticate() logs and rethrows, the GET is
   not sent *)
AuthFails(k, ep) ==
    /\ gets[k, ep].pc = "authenticating"
    /\ gets' = [gets EXCEPT ![k, ep].pc = "failed"]
    /\ rejectAll(k, "AuthError")
    /\ UNCHANGED <<now, authToken, tokenExpiry>>

(* The GET answers; Promise.all resolves with the third answer *)
GetSucceeds(k, ep) ==
    /\ gets[k, ep].pc = "getting"
    /\ gets' = [gets EXCEPT ![k, ep].pc = "done"]
    /\ IF fetchAll[k].status = "pending" /\ \A o \in ApiEndpoints \ {ep} : gets[k, o].pc = "done"
       THEN fetchAll' = [fetchAll EXCEPT ![k].status = "ok"]
       ELSE UNCHANGED fetchAll
    /\ UNCHANGED <<now, authToken, tokenExpiry>>

(* The GET fails: authenticatedGet logs and rethrows *)
GetFails(k, ep) ==
    /\ gets[k, ep].pc = "getting"
    /\ gets' = [gets EXCEPT ![k, ep].pc = "failed"]
    /\ rejectAll(k, "UpstreamFetchError")
    /\ UNCHANGED <<now, authToken, tokenExpiry>>

(* Time passes between the requests and responses of the client *)
ApiAdvance ==
    /\ now + ApiStep <= StartTime + MaxApiAdvance * ApiStep
    /\ now' = now + ApiStep
    /\ UNCHANGED apiVars

(* The client's operations do not touch the DataService fields or the
   engagement endpoints' state *)
NextApi ==
    \/ \E k \in ApiCalls : fetchAllData(k) /\ UNCHANGED <<dataVars, engVars>>
    \/ \E k \in ApiCalls, ep \in ApiEndpoints, e \in ExpiresIn :
          AuthSucceeds(k, ep, e) /\ UNCHANGED <<dataVars, engVars>>
    \/ \E k \in ApiCalls, ep \in ApiEndpoints : AuthFails(k, ep) /\ UNCHANGED <<dataVars, engVars>>
    \/ \E k \in ApiCalls, ep \in ApiEndpoints : GetSucceeds(k, ep) /\ UNCHANGED <<dataVars, engVars>>
    \/ \E k \in ApiCalls, ep \in ApiEndpoints : GetFails(k, ep) /\ UNCHANGED <<dataVars, engVars>>
    \/ ApiAdvance /\ UNCHANGED <<dataVars, engVars>>

(* A DataService that has not yet been read, with a client that is either
   new or holds the token that a successful fetchAllData call made at
   StartTime leaves when its last POST /auth was answered with expires_in
   90: the three tests found no token, three tokens were stored *)
InitApi ==
    /\ now = StartTime
    /\ cache = InitCache
    /\ refreshPromise = 0
    /\ promiseState = [p \in Promises |-> "unborn"]
    /\ calls = EmptyBag
    /\ ret = NoRet
    /\ timerOn = FALSE
    /\ nextTick = 0
    /\ db = EmptyDb
    /\ req = NoReq
    /\ locals = NoLocals
    /\ res = NoRes
    /\ deletes = 0
    /\ gets = [x \in ApiCalls \X ApiEndpoints |-> IdleGet]
    /\ fetchAll = [k \in ApiCalls |-> [status |-> "unborn", auths |-> 0]]
    /\ \/ authToken = 0 /\ tokenExpiry = 0
       \/ /\ authToken = Cardinality(ApiEndpoints)
          /\ tokenExpiry = StartTime + expiresInOf(90) * 1000

SpecApi == InitApi /\ [][NextApi]_vars

-----------------------------------------------------------------------------
(* The aggregation specification: the first refresh of a fresh DataService,
   made by one accessor call, over every snapshot of three bounded families *)

(* Up to MaxUsers users; the posts are by the first two users, by the last
   possible user and by an author who is not in the snapshot *)
TopUsersFamily ==
    { [users |-> [i \in 1..n |-> user(i)],
       posts |-> [j \in 1..Len(authors) |-> post(j, authors[j], "2024-03-01T10:00:00Z")],
       comments |-> <<>>] :
      n \in 0..MaxUsers,
      authors \in SeqsUpTo({1, 2, MaxUsers, MaxUsers + 1}, MaxUserPosts) }

(* Up to MaxPosts posts with every choice of timestamps; post j is by user
   (j % 3) + 1, and user 3 is not in the snapshot; up to MaxPostComments
   comments, the first two on post 1 and the others on post 2 *)
LatestPostsFamily ==
    { [users |-> <<user(1), user(2)>>,
       posts |-> [j \in 1..Len(stamps) |-> post(j, (j % 3) + 1, stamps[j])],
       comments |-> [j \in 1..k |-> comment(IF j <= 2 THEN 1 ELSE 2)]] :
      stamps \in SeqsUpTo(Timestamps, MaxPosts),
      k \in 0..MaxPostComments }

(* Up to MaxPopPosts posts and comments on post ids 1..MaxPopPosts+1: a
   comment on an id beyond the posts of the snapshot references no post *)
PopularPostsFamily ==
    { [users |-> <<user(1)>>,
       posts |-> [j \in 1..n |-> post(j, j, "2024-03-01T10:00:00Z")],
       comments |-> [j \in 1..Len(on) |-> comment(on[j])]] :
      n \in 0..MaxPopPosts,
      on \in SeqsUpTo(1..(MaxPopPosts + 1), MaxPopComments) }

AggSnapshots == TopUsersFamily \cup LatestPostsFamily \cup PopularPostsFamily

(* The fetch of the first refresh resolves with any snapshot of the families *)
FirstFetchSucceeds ==
    /\ promiseState[1] = "pending"
    /\ \E d \in AggSnapshots : FetchSucceeds(1, d)

NextAgg ==
    \/ BagCardinality(calls) = 0 /\ CallAccessor /\ UNCHANGED <<engVars, apiVars>>
    \/ FirstFetchSucceeds /\ UNCHANGED <<engVars, apiVars>>
    \/ \E c \in Outstanding : ResumeStarter(c) /\ UNCHANGED <<engVars, apiVars>>
    \/ \E c \in Outstanding : ReturnHit(c) /\ UNCHANGED <<engVars, apiVars>>

SpecAgg == Init /\ [][NextAgg]_vars

-----------------------------------------------------------------------------
(* The engagement endpoints (src/src/lib/types.tsx): JavaScript and prisma
   building blocks *)

(* Dates.  A Date is modelled by its day number (days since 1970-01-01);
   every instant of the model is at the same time of day, so the getTime()
   comparisons of the code are comparisons of day numbers.  A reading of
   new Date() is kept as its calendar fields: getFullYear(), getMonth()
   (0-based) and getDate(). *)
DaysFromCivil(y, m, d) ==
    LET yy == IF m <= 2 THEN y - 1 ELSE y
        era == yy \div 400
        yoe == yy - era * 400
        mp == IF m > 2 THEN m - 3 ELSE m + 9
        doy == (153 * mp + 2) \div 5 + d - 1
        doe == yoe * 365 + yoe \div 4 - yoe \div 100 + doy
    IN  era * 146097 + doe - 719468

(* MakeDay(year, month, date) of ECMAScript: month is 0-based and, like
   date, may lie outside its range; the overflow carries *)
MakeDay(year, month, date) ==
    DaysFromCivil(year + (month \div 12), (month % 12) + 1, 1) + date - 1

DateOf(today) == MakeDay(today.year, today.month, today.date)

(* startDate = new Date(); startDate.setDate(endDate.getDate() - n) *)
setDate(today, date) == MakeDay(today.year, today.month, date)

(* startDate.setMonth(endDate.getMonth() - 1) *)
setMonth(today, month) == MakeDay(today.year, month, today.date)

(* startDate.setFullYear(endDate.getFullYear() - 1) *)
setFullYear(today, year) == MakeDay(year, today.month, today.date)

(* new Date(0) *)
Epoch == 0

(* A JavaScript number that may be NaN or Infinity *)
Num(n) == [kind |-> "number", value |-> n]

NaN == [kind |-> "NaN", value |-> 0]

Infinity == [kind |-> "Infinity", value |-> 0]

(* parseInt(req.query.limit as string) on the limit parameters of the model *)
parseInt(s) ==
    CASE s = "1" -> Num(1)
      [] s = "2" -> Num(2)
      [] s = "3" -> Num(3)
      [] s = "0" -> Num(0)
      [] s = "-1" -> Num(-1)
      [] OTHER -> NaN

(* parseInt(...) || 10: NaN and 0 are falsy *)
DefaultLimit == 10

limitOf(raw) ==
    LET n == parseInt(raw)
    IN  IF n.kind = "NaN" \/ n.value = 0 THEN DefaultLimit ELSE n.value

(* (req.query.period as TimePeriod) || dflt: an absent or empty parameter
   is falsy, any other string is kept *)
periodOf(raw, dflt) == IF raw = undefined \/ raw = "" THEN dflt ELSE raw

(* parseFloat(x.toFixed(2)) of the quotient n / d, in hundredths: toFixed
   rounds to the nearest hundredth, a tie away from zero *)
RoundDiv(n, d) == (2 * n + d) \div (2 * d)

toFixed2(n, d) == IF n >= 0 THEN RoundDiv(n * 100, d) ELSE -RoundDiv((-n) * 100, d)

(* Array.prototype.slice(0, n): a negative n counts from the end *)
slice(s, n) ==
    IF n >= 0 THEN SubSeq(s, 1, Min(n, Len(s)))
    ELSE SubSeq(s, 1, IF Len(s) + n > 0 THEN Len(s) + n ELSE 0)

(* prisma findMany({ take: n }): the first n records that match, or the
   last -n of them when n is negative *)
take(s, n) ==
    IF n >= 0 THEN SubSeq(s, 1, Min(n, Len(s)))
    ELSE SubSeq(s, IF Len(s) + n > 0 THEN Len(s) + n + 1 ELSE 1, Len(s))

(* The switch (period) of getPopularPosts and getTrendingTopics *)
startDateOf(period, today) ==
    CASE period = "day" -> setDate(today, today.date - 1)
      [] period = "week" -> setDate(today, today.date - 7)
      [] period = "month" -> setMonth(today, today.month - 1)
      [] period = "year" -> setFullYear(today, today.year - 1)
      [] period = "all" -> Epoch
      [] OTHER -> setDate(today, today.date - 7)

(* The switch (period) of getUserEngagementComparison: no case "all" *)
startDateOfComparison(period, today) ==
    CASE period = "day" -> setDate(today, today.date - 1)
      [] period = "week" -> setDate(today, today.date - 7)
      [] period = "month" -> setMonth(today, today.month - 1)
      [] period = "year" -> setFullYear(today, today.year - 1)
      [] OTHER -> setMonth(today, today.month - 1)

(* req.query.userId when the parameter is absent (the ids are numbers >= 1) *)
NoUserId == 0

(* where: { createdAt: { gte: startDate, lte: endDate } } and, when given,
   userId; the records come in the order of the store *)
InWindow(p, w) == p.createdAt >= w.startDate /\ p.createdAt <= w.endDate

findMany(posts, w, userId) ==
    FilterIdx(posts, {i \in DOMAIN posts :
                         /\ InWindow(posts[i], w)
                         /\ userId # NoUserId => posts[i].userId = userId})

-----------------------------------------------------------------------------
(* getPopularPosts *)

(* Mutant: the views are added to the engagements *)
totalEngagementsOf_WithViews(p) == p.likes + p.comments + p.shares + p.views

(* post._count.likes + post._count.comments + post._count.shares *)
totalEngagementsOf(p) == p.likes + p.comments + p.shares

(* posts.map(post => ({ ...post, engagementMetrics })): the rate is
   parseFloat(engagementRate.toFixed(2)), kept in hundredths *)
engagementRateOf(p) ==
    IF p.views > 0 THEN toFixed2(totalEngagementsOf(p) * 100, p.views) ELSE 0

withEngagement(p) ==
    [post |-> p,
     engagementMetrics |->
        [postId |-> p.id,
         totalEngagements |-> totalEngagementsOf(p),
         likes |-> p.likes,
         comments |-> p.comments,
         shares |-> p.shares,
         views |-> p.views,
         engagementRate |-> engagementRateOf(p)]]

RECURSIVE SumRates(_)
SumRates(ps) ==
    IF ps = <<>> THEN 0
    ELSE SumRates(Front(ps)) + Last(ps).engagementMetrics.engagementRate

sortedPosts(posts) ==
    ArraySort([i \in DOMAIN posts |-> withEngagement(posts[i])], "engagement")

(* Mutant: the average is taken over every candidate post *)
averageEngagementRate_OverCandidates(popularPosts, candidates) ==
    IF Len(candidates) > 0
    THEN toFixed2(SumRates(candidates), 100 * Len(candidates))
    ELSE 0

(* totalEngagementRate / totalPosts over the returned posts, 0 for none;
   the second argument (the sorted candidates) is not used *)
averageEngagementRate(popularPosts, candidates) ==
    IF Len(popularPosts) > 0
    THEN toFixed2(SumRates(popularPosts), 100 * Len(popularPosts))
    ELSE 0

(* The whole handler on the store d and the request r *)
popularPostsResponse(d, r) ==
    LET period == periodOf(r.period, "week")
        limit == limitOf(r.limit)
        w == [startDate |-> startDateOf(period, r.today), endDate |-> DateOf(r.today)]
        posts == take(findMany(d.posts, w, r.userId), limit * 3)
        sorted == sortedPosts(posts)
        popularPosts == slice(sorted, limit)
    IN  [status |-> 200,
         period |-> period,
         dateRange |-> [from |-> w.startDate, to |-> w.endDate],
         metrics |-> [totalPosts |-> Len(popularPosts),
                      averageEngagementRate |-> averageEngagementRate(popularPosts, sorted)],
         posts |-> popularPosts]

-----------------------------------------------------------------------------
(* getTrendingTopics *)

(* The characters of the model.  Post.content and the entries of Post.tags
   are sequences of characters. *)
WordChars == {"a", "A", "b", "d", "e", "g", "n", "o", "r", "s", "t", "u", "y", "_", "1"}

(* A character of the ranges \u4E00-\u9FFF of the hashtag class, which \w
   does not match, named by its code point *)
ScriptChars == {"U+65E5"}

(* [\w\u0590-\u05FF\u0621-\u064A\u4E00-\u9FFF\u3040-\u309F\u30A0-\u30FF] *)
HashtagChars == WordChars \cup ScriptChars

(* [\w] *)
MentionChars == WordChars

(* The end of the longest run of characters of class cls that starts at i
   (i - 1 when the character at i is not of the class) *)
RECURSIVE RunEnd(_, _, _)
RunEnd(content, i, cls) ==
    IF i <= Len(content) /\ content[i] \in cls THEN RunEnd(content, i + 1, cls) ELSE i - 1

(* content.match(/<marker>[cls]+/g) || []: the matches from position i on,
   leftmost first, each as long as possible, none overlapping *)
RECURSIVE match(_, _, _, _)
match(content, i, marker, cls) ==
    IF i > Len(content) THEN <<>>
    ELSE LET j == RunEnd(content, i + 1, cls)
         IN  IF content[i] = marker /\ j > i
             THEN <<SubSeq(content, i, j)>> \o match(content, j + 1, marker, cls)
             ELSE match(content, i + 1, marker, cls)

extractTopics(content) ==
    [hashtags |-> match(content, 1, "#", HashtagChars),
     mentions |-> match(content, 1, "@", MentionChars)]

(* topicsMap, a Map<string, Topic>, as the sequence of its values in
   insertion order; topicsMap.has(text) *)
topicsMapHas(m, text) == \E i \in DOMAIN m : m[i].text = text

(* Mutant: a repeated token replaces the entry instead of accumulating *)
topicOccurrence_Overwrites(m, text, type, totalEngagement) ==
    IF topicsMapHas(m, text)
    THEN [i \in DOMAIN m |->
             IF m[i].text = text
             THEN [m[i] EXCEPT !.count = 1, !.engagementScore = totalEngagement]
             ELSE m[i]]
    ELSE Append(m, [text |-> text, type |-> type, count |-> 1,
                    engagementScore |-> totalEngagement])

(* One occurrence of the token text: topic.count += 1 and
   topic.engagementScore += totalEngagement when the key is there, else
   topicsMap.set(text, { text, type, count: 1, engagementScore }) *)
topicOccurrence(m, text, type, totalEngagement) ==
    IF topicsMapHas(m, text)
    THEN [i \in DOMAIN m |->
             IF m[i].text = text
             THEN [m[i] EXCEPT !.count = @ + 1, !.engagementScore = @ + totalEngagement]
             ELSE m[i]]
    ELSE Append(m, [text |-> text, type |-> type, count |-> 1,
                    engagementScore |-> totalEngagement])

(* tokens.forEach(token => ...) *)
RECURSIVE forEachToken(_, _, _, _)
forEachToken(m, tokens, type, totalEngagement) ==
    IF tokens = <<>> THEN m
    ELSE topicOccurrence(forEachToken(m, Front(tokens), type, totalEngagement),
                         Last(tokens), type, totalEngagement)

(* `#${tag}` for every entry of post.tags *)
hashTags(tags) == [i \in DOMAIN tags |-> <<"#">> \o tags[i]]

(* The body of posts.forEach for one post: the hashtags of the text, then
   its mentions, then the tag list *)
processPost(m, p) ==
    LET totalEngagement == p.likes + p.comments + p.shares
        found == extractTopics(p.content)
        m1 == forEachToken(m, found.hashtags, "hashtag", totalEngagement)
        m2 == forEachToken(m1, found.mentions, "mention", totalEngagement)
    IN  forEachToken(m2, hashTags(p.tags), "hashtag", totalEngagement)

RECURSIVE topicsMapOf(_)
topicsMapOf(posts) ==
    IF posts = <<>> THEN <<>>
    ELSE processPost(topicsMapOf(Front(posts)), Last(posts))

(* Array.from(topicsMap.values()).sort(...).slice(0, limit) *)
topicsOf(m, limit) == slice(ArraySort(m, "engagementScore"), limit)

trendingTopicsResponse(d, r) ==
    LET period == periodOf(r.period, "week")
        limit == limitOf(r.limit)
        w == [startDate |-> startDateOf(period, r.today), endDate |-> DateOf(r.today)]
        posts == findMany(d.posts, w, NoUserId)
    IN  [status |-> 200,
         period |-> period,
         dateRange |-> [from |-> w.startDate, to |-> w.endDate],
         topics |-> topicsOf(topicsMapOf(posts), limit)]

-----------------------------------------------------------------------------
(* getUserEngagementComparison *)

RECURSIVE sumEngagements(_)
sumEngagements(posts) ==
    IF posts = <<>> THEN 0
    ELSE sumEngagements(Front(posts)) + totalEngagementsOf(Last(posts))

RECURSIVE sumViews(_)
sumViews(posts) == IF posts = <<>> THEN 0 ELSE sumViews(Front(posts)) + Last(posts).views

(* views > 0 ? (engagements / views) * 100 : 0, as the exact fraction
   num / den with den > 0 *)
rateOf(engagements, views) ==
    IF views > 0 THEN [num |-> engagements * 100, den |-> views] ELSE [num |-> 0, den |-> 1]

(* prisma.post.findUnique({ where: { id } }).then(data => data?.userId):
   0 stands for undefined, the post being no longer in the store *)
findUniqueUserId(posts, id) ==
    IF \E i \in DOMAIN posts : posts[i].id = id
    THEN (CHOOSE p \in {posts[i] : i \in DOMAIN posts} : p.id = id).userId
    ELSE NoUserId

(* userPostsMap, a Map<string, { engagements, views }>, as the sequence of
   its entries in insertion order; for (const post of allPosts) { ... } *)
RECURSIVE userPostsMapOf(_, _)
userPostsMapOf(allPosts, stored) ==
    IF allPosts = <<>> THEN <<>>
    ELSE LET m == userPostsMapOf(Front(allPosts), stored)
             p == Last(allPosts)
             postUserId == findUniqueUserId(stored, p.id)
         IN  IF postUserId = NoUserId THEN m
             ELSE IF \E i \in DOMAIN m : m[i].userId = postUserId
             THEN [i \in DOMAIN m |->
                      IF m[i].userId = postUserId
                      THEN [m[i] EXCEPT !.engagements = @ + totalEngagementsOf(p),
                                        !.views = @ + p.views]
                      ELSE m[i]]
             ELSE Append(m, [userId |-> postUserId,
                             engagements |-> totalEngagementsOf(p),
                             views |-> p.views])

(* userPostsMap.forEach(data => rates.push(rate)); rates.sort((a, b) => a - b) *)
allUserEngagementRatesOf(m) ==
    ArraySort([i \in DOMAIN m |-> rateOf(m[i].engagements, m[i].views)], "rate")

(* Mutant: the first rate strictly above the target's *)
findIndex_Strict(rates, userRate) ==
    LET hits == {i \in DOMAIN rates : Compare("rate", rates[i], userRate) > 0}
    IN  IF hits = {} THEN -1 ELSE (CHOOSE i \in hits : \A j \in hits : i <= j) - 1

(* rates.findIndex(rate => rate >= userEngagementRate), 0-based, -1 for none *)
findIndex(rates, userRate) ==
    LET hits == {i \in DOMAIN rates : Compare("rate", rates[i], userRate) >= 0}
    IN  IF hits = {} THEN -1 ELSE (CHOOSE i \in hits : \A j \in hits : i <= j) - 1

(* Mutant: the rank counts the rates up to and including the target's *)
percentileRankOf_CountsEqual(rates, userRate) ==
    IF Len(rates) > 0
    THEN LET position ==
                 Cardinality({i \in DOMAIN rates : Compare("rate", rates[i], userRate) <= 0})
         IN  toFixed2(position * 100, Len(rates))
    ELSE 0

(* percentileRank, after parseFloat(percentileRank.toFixed(2)), in hundredths *)
percentileRankOf(rates, userRate) ==
    IF Len(rates) > 0
    THEN LET position == findIndex(rates, userRate)
         IN  IF position # -1 THEN toFixed2(position * 100, Len(rates)) ELSE 100 * 100
    ELSE 0

(* parseFloat(((userRate / platformRate) * 100 - 100).toFixed(2)), in
   hundredths: a zero platform rate makes the quotient NaN (0 / 0) or
   Infinity (x / 0), which toFixed and parseFloat hand through *)
comparisonOf(userRate, platformRate) ==
    IF platformRate.num = 0
    THEN IF userRate.num = 0 THEN NaN ELSE Infinity
    ELSE Num(toFixed2(userRate.num * platformRate.den * 100
                          - 100 * userRate.den * platformRate.num,
                      userRate.den * platformRate.num))

-----------------------------------------------------------------------------
(* The engagement endpoints: stores and requests *)

(* A post of the store with its _count fields *)
storedPost(id, userId, createdAt, stats, content, tags) ==
    [id |-> id, userId |-> userId, createdAt |-> createdAt,
     likes |-> stats[1], comments |-> stats[2], shares |-> stats[3], views |-> stats[4],
     content |-> content, tags |-> tags]

request(endpoint, period, limit, userId, today) ==
    [endpoint |-> endpoint, period |-> period, limit |-> limit, userId |-> userId,
     today |-> today]

StoredUsers == {1, 2, 3}

(* A user id that is not in the store *)
UnknownUser == 9

Endpoints == {"getPopularPosts", "getTrendingTopics", "getUserEngagementComparison"}

(* Readings of new Date(): 2024-03-31, 2024-01-03 and 2024-02-29 *)
Today0 == [year |-> 2024, month |-> 2, date |-> 31]

Todays ==
    { Today0, [year |-> 2024, month |-> 0, date |-> 3], [year |-> 2024, month |-> 1, date |-> 29] }

(* The raw period parameters: absent, the five periods, and a malformed one *)
PeriodInputs == {undefined, "day", "week", "month", "year", "all", "decade"}

(* The raw limit parameters: absent, well-formed, and malformed ones *)
LimitInputs == {undefined, "1", "2", "abc", "0", "-1"}

(* Ages of a post in days at the time of the request (-1: created later) *)
Ages == {-1, 0, 1, 2, 7, 8, 29, 31, 32, 365, 366, 367, 5000}

(* likes, comments, shares, views *)
RankStats == { <<2, 0, 0, 0>>, <<1, 1, 0, 3>>, <<0, 0, 1, 3>>, <<1, 1, 1, 2>> }

(* author and counts of a post of the comparison *)
CmpPosts ==
    { <<1, <<2, 0, 0, 0>> >>, <<1, <<1, 1, 0, 4>> >>, <<1, <<1, 1, 1, 2>> >>,
      <<2, <<2, 0, 0, 0>> >>, <<3, <<2, 0, 0, 0>> >>, <<3, <<1, 1, 1, 2>> >> }

(* counts, text and tag list of a post of the topics *)
TopicPosts ==
    { << <<1, 0, 0, 1>>, <<>>, <<>> >>,
      << <<1, 0, 0, 1>>, <<"#", "a">>, <<>> >>,
      << <<0, 2, 1, 1>>, <<"#", "a">>, << <<"a">> >> >>,
      << <<0, 2, 1, 1>>, <<"#", "a", " ", "#", "a", " ", "@", "b">>, <<>> >>,
      << <<1, 0, 0, 1>>, <<"#", "A", "@", "a">>, << <<"a">> >> >>,
      << <<0, 2, 1, 1>>, <<"#", "#", "a", "#", " ", "@">>, <<>> >>,
      << <<1, 0, 0, 1>>, <<"@", "a", "U+65E5", "#", "a", "U+65E5">>, <<>> >>,
      << <<0, 2, 1, 1>>, <<>>, << <<"a">> >> >> }

(* "great day #sunny #sunny @bob" with 5 likes, 3 comments and 2 shares *)
SunnyPost(today) ==
    storedPost(1, 1, DateOf(today), <<5, 3, 2, 40>>,
               <<"g", "r", "e", "a", "t", " ", "d", "a", "y", " ",
                 "#", "s", "u", "n", "n", "y", " ", "#", "s", "u", "n", "n", "y", " ",
                 "@", "b", "o", "b">>,
               <<>>)

store(posts) == [users |-> StoredUsers, posts |-> posts]

(* Dated posts and every period, for the three endpoints, at the readings
   todays of new Date() *)
WindowFamily(todays) ==
    { [db |-> store([j \in 1..Len(ages) |->
                        storedPost(j, 1, DateOf(today) - ages[j], <<1, 0, 0, 2>>,
                                   <<"#", "a">>, <<>>)]),
       req |-> request(e, p, undefined,
                       IF e = "getUserEngagementComparison" THEN 1 ELSE NoUserId, today)] :
      ages \in SeqsUpTo(Ages, MaxWindowPosts), today \in todays, p \in PeriodInputs,
      e \in Endpoints }

(* Posts of the day today with every choice of counts, by users 2, 1, 2, ...,
   and every limit, for getPopularPosts *)
RankFamily(today) ==
    { [db |-> store([j \in 1..Len(stats) |->
                        storedPost(j, (j % 2) + 1, DateOf(today), stats[j], <<>>, <<>>)]),
       req |-> request("getPopularPosts", undefined, l, u, today)] :
      stats \in SeqsUpTo(RankStats, MaxRankPosts), l \in LimitInputs, u \in {NoUserId, 1} }

(* Posts of the day today with texts and tag lists, for getTrendingTopics *)
TopicFamily(today) ==
    { [db |-> store([j \in 1..Len(ps) |->
                        storedPost(j, 1, DateOf(today), ps[j][1], ps[j][2], ps[j][3])]),
       req |-> request("getTrendingTopics", undefined, l, NoUserId, today)] :
      ps \in SeqsUpTo(TopicPosts, MaxTopicPosts),
      l \in {undefined, "1", "-1"} }
    \cup
    { [db |-> store(<<SunnyPost(today)>>),
       req |-> request("getTrendingTopics", undefined, undefined, NoUserId, today)] }

(* Posts of the day today by three authors with every choice of counts, for
   getUserEngagementComparison of user 1 and of an unknown user *)
ComparisonFamily(today) ==
    { [db |-> store([j \in 1..Len(ps) |->
                        storedPost(j, ps[j][1], DateOf(today), ps[j][2], <<>>, <<>>)]),
       req |-> request("getUserEngagementComparison", undefined, undefined, u, today)] :
      ps \in SeqsUpTo(CmpPosts, MaxCmpPosts), u \in {1, UnknownUser} }

EngScenarios(today) ==
    WindowFamily(Todays) \cup RankFamily(today) \cup TopicFamily(today)
        \cup ComparisonFamily(today)

InitEng ==
    /\ InitCoord
    /\ \E s \in EngScenarios(Today0) : db = s.db /\ req = s.req
    /\ locals = [stage |-> "received"]
    /\ res = NoRes
    /\ deletes = 0

-----------------------------------------------------------------------------
(* The engagement endpoints: handlers *)

(* getPopularPosts(req, res): one query, then the response *)
getPopularPosts ==
    /\ req.endpoint = "getPopularPosts"
    /\ locals.stage = "received"
    /\ res' = popularPostsResponse(db, req)
    /\ locals' = [stage |-> "responded"]
    /\ UNCHANGED <<db, req, deletes>>
    /\ UNCHANGED <<coordVars, apiVars>>

(* getTrendingTopics(req, res): one query, then the response *)
getTrendingTopics ==
    /\ req.endpoint = "getTrendingTopics"
    /\ locals.stage = "received"
    /\ res' = trendingTopicsResponse(db, req)
    /\ locals' = [stage |-> "responded"]
    /\ UNCHANGED <<db, req, deletes>>
    /\ UNCHANGED <<coordVars, apiVars>>

(* Mutant: the handler goes on to the queries without looking at the user *)
findUser_NoCheck ==
    /\ req.endpoint = "getUserEngagementComparison"
    /\ locals.stage = "received"
    /\ LET period == periodOf(req.period, "month")
           w == [startDate |-> startDateOfComparison(period, req.today),
                 endDate |-> DateOf(req.today)]
       IN  /\ locals' = [stage |-> "userPosts", period |-> period, w |-> w]
           /\ res' = res
    /\ UNCHANGED <<db, req, deletes>>
    /\ UNCHANGED <<coordVars, apiVars>>

(* getUserEngagementComparison up to the answer of prisma.user.findUnique:
   the period and the date range, then 404 for a user who is not there *)
findUser ==
    /\ req.endpoint = "getUserEngagementComparison"
    /\ locals.stage = "received"
    /\ LET period == periodOf(req.period, "month")
           w == [startDate |-> startDateOfComparison(period, req.today),
                 endDate |-> DateOf(req.today)]
       IN  IF req.userId \in db.users
           THEN /\ locals' = [stage |-> "userPosts", period |-> period, w |-> w]
                /\ res' = res
           ELSE /\ locals' = [stage |-> "responded", period |-> period, w |-> w]
                /\ res' = [status |-> 404]
    /\ UNCHANGED <<db, req, deletes>>
    /\ UNCHANGED <<coordVars, apiVars>>

(* The answer of the query for the user's posts, and the user's totals *)
findUserPosts ==
    /\ locals.stage = "userPosts"
    /\ LET userPosts == findMany(db.posts, locals.w, req.userId)
       IN  locals' = [stage |-> "allPosts", period |-> locals.period, w |-> locals.w,
                      userPosts |-> userPosts,
                      userTotalEngagements |-> sumEngagements(userPosts),
                      userTotalViews |-> sumViews(userPosts)]
    /\ UNCHANGED <<db, req, res, deletes>>
    /\ UNCHANGED <<coordVars, apiVars>>

(* The answer of the query for all posts of the window, and the platform totals *)
findAllPosts ==
    /\ locals.stage = "allPosts"
    /\ LET allPosts == findMany(db.posts, locals.w, NoUserId)
       IN  locals' = [stage |-> "grouping", period |-> locals.period, w |-> locals.w,
                      userPosts |-> locals.userPosts,
                      userTotalEngagements |-> locals.userTotalEngagements,
                      userTotalViews |-> locals.userTotalViews,
                      allPosts |-> allPosts,
                      platformTotalEngagements |-> sumEngagements(allPosts),
                      platformTotalViews |-> sumViews(allPosts)]
    /\ UNCHANGED <<db, req, res, deletes>>
    /\ UNCHANGED <<coordVars, apiVars>>

(* The loop over allPosts with its findUnique per post, the rates, the
   percentile rank and the response *)
respondComparison ==
    /\ locals.stage = "grouping"
    /\ LET userEngagementRate == rateOf(locals.userTotalEngagements, locals.userTotalViews)
           platformEngagementRate ==
               rateOf(locals.platformTotalEngagements, locals.platformTotalViews)
           userPostsMap == userPostsMapOf(locals.allPosts, db.posts)
           allUserEngagementRates == allUserEngagementRatesOf(userPostsMap)
       IN  /\ locals' = [stage |-> "responded", period |-> locals.period, w |-> locals.w,
                         userPosts |-> locals.userPosts,
                         allPosts |-> locals.allPosts,
                         userEngagementRate |-> userEngagementRate,
                         platformEngagementRate |-> platformEngagementRate,
                         userPostsMap |-> userPostsMap,
                         allUserEngagementRates |-> allUserEngagementRates]
           /\ res' = [status |-> 200,
                      userId |-> req.userId,
                      period |-> locals.period,
                      dateRange |-> [from |-> locals.w.startDate, to |-> locals.w.endDate],
                      userMetrics |->
                         [totalPosts |-> Len(locals.userPosts),
                          totalEngagements |-> locals.userTotalEngagements,
                          engagementRate |->
                              toFixed2(userEngagementRate.num, userEngagementRate.den),
                          percentileRank |->
                              percentileRankOf(allUserEngagementRates, userEngagementRate)],
                      platformAverages |->
                         [engagementRate |->
                              toFixed2(platformEngagementRate.num, platformEngagementRate.den),
                          comparison |->
                              comparisonOf(userEngagementRate, platformEngagementRate)]]
    /\ UNCHANGED <<db, req, deletes>>
    /\ UNCHANGED <<coordVars, apiVars>>

(* Another request deletes a post while the handler waits for a query *)
deletePost ==
    /\ locals.stage \in {"userPosts", "allPosts", "grouping"}
    /\ deletes < MaxDeletes
    /\ \E i \in DOMAIN db.posts :
          db' = [db EXCEPT !.posts = FilterIdx(db.posts, DOMAIN db.posts \ {i})]
    /\ deletes' = deletes + 1
    /\ UNCHANGED <<req, locals, res>>
    /\ UNCHANGED <<coordVars, apiVars>>

(* A query is rejected: the catch block answers with the error response *)
queryFails ==
    /\ locals.stage \in {"received", "userPosts", "allPosts", "grouping"}
    /\ locals' = [stage |-> "responded"]
    /\ res' = [status |-> 500]
    /\ UNCHANGED <<db, req, deletes>>
    /\ UNCHANGED <<coordVars, apiVars>>

NextEng ==
    \/ getPopularPosts
    \/ getTrendingTopics
    \/ findUser
    \/ findUserPosts
    \/ findAllPosts
    \/ respondComparison
    \/ deletePost
    \/ queryFails

SpecEng == InitEng /\ [][NextEng]_vars

-----------------------------------------------------------------------------
(* Vocabulary of the properties *)

InFlight == {p \in Promises : promiseState[p] = "pending"}

(* The step makes promise p succeed / fail *)
Succeeds(p) == promiseState[p] = "pending" /\ promiseState'[p] = "ok"

Fails(p) == promiseState[p] = "pending" /\ promiseState'[p] \in Errors

(* The records a call can have *)
CallRecords ==
    [pc : {"hit", "waiting"}, forced : BOOLEAN, role : {"none", "starter", "joiner"},
     awaiting : 0..MaxFetches]

(* The step is the call of a public method, outstanding as c afterwards /
   the completion of the outstanding call c *)
Called(c) == calls' = calls (+) SetToBag({c})

Completed(c) == BagIn(c, calls) /\ calls' = calls (-) SetToBag({c})

(* The outcome a settled promise hands to the calls that await it *)
statusOf(p) == IF promiseState[p] = "ok" THEN "ok" ELSE "err"

PostCountOf(raw, userId) ==
    Cardinality({j \in DOMAIN raw.posts : raw.posts[j].userId = userId})

CommentCountOf(raw, postId) ==
    Cardinality({j \in DOMAIN raw.comments : raw.comments[j].postId = postId})

-----------------------------------------------------------------------------
(* C1: single-flight.  In every reachable state at most one performRefresh /
   fetchAllData invocation is in flight, whatever mix of accessor calls
   (force = false, cache not fresh) and background ticks (force = true)
   arrives; a call that arrives while one is in flight joins it. *)
C1_SingleFlight ==
    /\ Cardinality(InFlight) <= 1
    /\ \A p \in InFlight : refreshPromise = p

(* Two calls wait on the one fetch in flight: one started it, one joined it *)
C1_Witness ==
    \E p \in InFlight : \E c1, c2 \in Outstanding :
        /\ c1.awaiting = p /\ c1.role = "starter"
        /\ c2.awaiting = p /\ c2.role = "joiner"

(* C2: a call that joined (or started) a refresh completes only once the
   promise of that refresh has settled, and with that promise's outcome:
   it resolves if the fetch succeeded and rejects with the same error if
   the fetch failed. *)
C2_JoinerSharesOutcome ==
    [][\A c \in Outstanding :
          (c.pc = "waiting" /\ Completed(c)) =>
              /\ Settled(c.awaiting)
              /\ ret'.role = c.role
              /\ ret'.status = statusOf(c.awaiting)
              /\ ret'.status = "err" => ret'.value = promiseState[c.awaiting]]_vars

(* A joining call has just been rejected with the error of the fetch *)
C2_Witness == ret.role = "joiner" /\ ret.status = "err" /\ ret.value \in Errors

(* C3: nothing but a succeeding refresh changes the cache; in particular the
   step in which the fetch fails leaves raw data, the three views and
   lastFetched as they were. *)
C3_FailedRefreshKeepsCache ==
    [][/\ (\E p \in Promises : Fails(p)) => cache' = cache
       /\ cache' # cache => \E p \in Promises : Succeeds(p)]_vars

(* A refresh has failed while the cache holds the data of an earlier one *)
C3_Witness ==
    /\ \E p \in Promises : promiseState[p] \in Errors
    /\ cache.lastFetched > 0
    /\ cache.rawData # EmptyRaw

(* C4 (as claimed): an accessor call fails only if the cache was never
   filled; once a refresh has succeeded, accessors return the stored view
   even when the refresh they started or joined fails. *)
C4_StaleServe ==
    (ret.status = "err" /\ ret.kind \in Accessors) => cache.lastFetched = 0

(* C5: a call of refreshData(false) made when now < lastFetched + 10 s
   returns at once and changes neither the cache nor the guard nor starts a
   fetch; any other call made while the guard is null starts exactly one
   fetch and sets the guard to it. *)
C5_CacheHitOrOneFetch ==
    [][\A c \in CallRecords :
          Called(c) =>
              IF ~c.forced /\ now < cache.lastFetched + CACHE_DURATION
              THEN /\ c.pc = "hit"
                   /\ cache' = cache
                   /\ refreshPromise' = refreshPromise
                   /\ promiseState' = promiseState
              ELSE refreshPromise = 0 =>
                       /\ Cardinality({p \in Promises : promiseState[p] # "pending"
                                                      /\ promiseState'[p] = "pending"}) = 1
                       /\ refreshPromise' # 0
                       /\ promiseState[refreshPromise'] = "unborn"
                       /\ promiseState'[refreshPromise'] = "pending"
                       /\ c.awaiting = refreshPromise']_vars

(* An accessor call has hit a cache filled by an earlier refresh *)
C5_Witness == \E c \in Outstanding : c.pc = "hit" /\ cache.lastFetched > 0

(* C6: in every state the three views are the aggregation of the raw data
   the cache holds, and raw data, views and lastFetched are those of one
   refresh (or all initial). *)
C6_ViewsOfCurrentSnapshot ==
    /\ cache.computed.topUsers = computeTopUsers(cache.rawData)
    /\ cache.computed.latestPosts = computeLatestPosts(cache.rawData)
    /\ cache.computed.popularPosts = computePopularPosts(cache.rawData)
    /\ cache.lastFetched = 0 <=> cache = InitCache

(* A second refresh has replaced the snapshot of the first by another one,
   and an accessor has returned a view of it *)
C6_Witness ==
    /\ cache.rawData = SnapshotB
    /\ \E p \in Promises : p > 1 /\ promiseState[p] \in {"ok", "collected"}
    /\ ret.status = "ok" /\ ret.kind = "getPopularPosts"
    /\ ret.value = computePopularPosts(SnapshotB)

(* C7 (as claimed): every successful refresh gives lastFetched a strictly
   greater value than it had. *)
C7_StrictlyIncreasing ==
    [][(\E p \in Promises : Succeeds(p)) => cache'.lastFetched > cache.lastFetched]_vars

(* C7 (amended): lastFetched changes only in a successful refresh, which
   sets it to the clock reading at its completion; it never decreases. *)
C7_NeverDecreases ==
    [][/\ cache'.lastFetched # cache.lastFetched => \E p \in Promises : Succeeds(p)
       /\ (\E p \in Promises : Succeeds(p)) =>
              /\ cache'.lastFetched = now
              /\ cache'.lastFetched >= cache.lastFetched]_vars

(* A refresh after the first one has succeeded at a later clock reading *)
C7_Witness ==
    /\ \E p \in Promises : p > 1 /\ promiseState[p] = "ok"
    /\ cache.lastFetched > StartTime
    /\ cache.lastFetched = now

(* C8 (as claimed): popularPosts holds exactly the posts of the snapshot whose
   comment count is the greatest comment count of a post of the snapshot,
   each with that count, and is empty only if the snapshot has no posts. *)
C8_PopularIsMaxOverPosts ==
    LET raw == cache.rawData
        pop == cache.computed.popularPosts
        n == Len(raw.posts)
        cnt(i) == CommentCountOf(raw, raw.posts[i].id)
        isMax(i) == \A j \in 1..n : cnt(j) <= cnt(i)
    IN  /\ \A i \in 1..n : isMax(i) <=> \E a \in DOMAIN pop : pop[a].id = raw.posts[i].id
        /\ \A a \in DOMAIN pop : pop[a].commentCount = CommentCountOf(raw, pop[a].id)
        /\ pop = <<>> <=> raw.posts = <<>>

(* C9: topUsers is the first five of the users stably sorted by descending
   postCount: the user at snapshot position i, with cnt(i) posts, has rank
   1 + the number of users with more posts or with as many and an earlier
   position; the users of rank 1..5 stand at their rank with their count,
   nothing else is in the list, and no omitted user has more posts than a
   listed one. *)
C9_TopUsersFirstFiveByPostCount ==
    LET raw == cache.rawData
        top == cache.computed.topUsers
        n == Len(raw.users)
        cnt(i) == PostCountOf(raw, raw.users[i].id)
        rank(i) == 1 + Cardinality({j \in 1..n : cnt(j) > cnt(i) \/ (cnt(j) = cnt(i) /\ j < i)})
    IN  /\ Len(top) <= 5
        /\ Len(top) = Min(5, n)
        /\ \A a, b \in DOMAIN top : a < b => top[a].postCount >= top[b].postCount
        /\ \A i \in 1..n :
              rank(i) <= 5 =>
                  top[rank(i)] = [id |-> raw.users[i].id, name |-> raw.users[i].name,
                                  postCount |-> cnt(i)]
        /\ \A i \in 1..n :
              rank(i) > 5 => \A a \in DOMAIN top : cnt(i) <= top[a].postCount

(* More than five users; the last of the snapshot has the most posts and
   leads the list, two listed users tie, and a user is left out *)
C9_Witness ==
    LET raw == cache.rawData
        top == cache.computed.topUsers
    IN  /\ Len(raw.users) > 5
        /\ Len(top) = 5
        /\ top[1].id = raw.users[Len(raw.users)].id
        /\ top[1].postCount > top[2].postCount
        /\ top[4].postCount = top[5].postCount
        /\ top[4].id < top[5].id

(* C10: latestPosts has at most five entries, each a post of the snapshot
   taken once, in non-increasing order of the instants of their timestamps;
   no post left out is later than a listed one; each entry carries the
   number of comments on it and the name of its author, undefined when the
   author is not in the snapshot. *)
C10_LatestPostsByTimestamp ==
    LET raw == cache.rawData
        lat == cache.computed.latestPosts
        n == Len(raw.posts)
        listed(i) == \E a \in DOMAIN lat : lat[a].id = raw.posts[i].id
        authors(userId) == {u \in DOMAIN raw.users : raw.users[u].id = userId}
    IN  /\ Len(lat) <= 5
        /\ Len(lat) = Min(5, n)
        /\ \A a, b \in DOMAIN lat :
              a < b => /\ DateGetTime(lat[a].timestamp) >= DateGetTime(lat[b].timestamp)
                       /\ lat[a].id # lat[b].id
        /\ \A a \in DOMAIN lat :
              /\ \E i \in 1..n : /\ raw.posts[i].id = lat[a].id
                                 /\ raw.posts[i].userId = lat[a].userId
                                 /\ raw.posts[i].timestamp = lat[a].timestamp
              /\ lat[a].commentCount = CommentCountOf(raw, lat[a].id)
              /\ IF authors(lat[a].userId) = {}
                 THEN lat[a].userName = undefined
                 ELSE \E u \in authors(lat[a].userId) : lat[a].userName = raw.users[u].name
        /\ \A i \in 1..n :
              ~listed(i) =>
                  \A a \in DOMAIN lat :
                      DateGetTime(raw.posts[i].timestamp) <= DateGetTime(lat[a].timestamp)

(* More than five posts, not in timestamp order in the snapshot; the list
   starts with a post that is not the first of the snapshot, and holds a
   commented post, a post of an unknown author and two posts of one instant
   written differently *)
C10_Witness ==
    LET raw == cache.rawData
        lat == cache.computed.latestPosts
    IN  /\ Len(raw.posts) > 5
        /\ Len(lat) = 5
        /\ lat[1].id # raw.posts[1].id
        /\ DateGetTime(lat[1].timestamp) > DateGetTime(lat[5].timestamp)
        /\ \E a \in DOMAIN lat : lat[a].commentCount = 2
        /\ \E a \in DOMAIN lat : lat[a].userName = undefined
        /\ \E a, b \in DOMAIN lat : /\ lat[a].timestamp # lat[b].timestamp
                                     /\ DateGetTime(lat[a].timestamp) = DateGetTime(lat[b].timestamp)

-----------------------------------------------------------------------------
(* Vocabulary of the properties of the engagement endpoints *)

(* The handler of the endpoint has answered with status 200 *)
Answered(endpoint) == req.endpoint = endpoint /\ res.status = 200

(* a < b, a <= b for rates kept as fractions *)
RateLess(a, b) == a.num * b.den < b.num * a.den

RateLeq(a, b) == a.num * b.den <= b.num * a.den

(* The window a well-formed period stands for, as day numbers: the same
   calendar day one day, seven days, one month or one year earlier, or
   the epoch *)
Periods == {"day", "week", "month", "year", "all"}

(* The posts of the store that lie in the window of the response and match
   the userId filter of the request *)
Candidates ==
    {i \in DOMAIN db.posts :
        /\ db.posts[i].createdAt >= res.dateRange.from
        /\ db.posts[i].createdAt <= res.dateRange.to
        /\ req.userId # NoUserId => db.posts[i].userId = req.userId}

(* C11 (as claimed): a target user whose engagement rate is strictly greater
   than the rate of every other author who posted in the window gets
   percentileRank exactly 100. *)
C11_TopPerformerGets100 ==
    (/\ Answered("getUserEngagementComparison")
     /\ Len(locals.userPosts) > 0
     /\ \E i \in DOMAIN locals.userPostsMap : locals.userPostsMap[i].userId # req.userId
     /\ \A i \in DOMAIN locals.userPostsMap :
           locals.userPostsMap[i].userId # req.userId =>
               RateLess(rateOf(locals.userPostsMap[i].engagements,
                               locals.userPostsMap[i].views),
                        locals.userEngagementRate))
    => res.userMetrics.percentileRank = 100 * 100

(* C12 (as claimed): the comparison figure is userRate / platformRate * 100
   - 100 when the platform rate is positive and 0 when it is 0; it is
   never NaN or infinite. *)
C12_ComparisonGuarded ==
    Answered("getUserEngagementComparison") =>
        /\ res.platformAverages.comparison.kind = "number"
        /\ res.platformAverages.engagementRate = 0 =>
               res.platformAverages.comparison.value = 0

(* a ranks strictly above b: more engagements, or as many and a greater rate *)
RanksAbove(a, b) ==
    \/ a.totalEngagements > b.totalEngagements
    \/ /\ a.totalEngagements = b.totalEngagements
       /\ a.engagementRate > b.engagementRate

(* C13 (as claimed): getPopularPosts returns the `limit` highest-ranked of
   all posts of the window that match the userId filter: no such post that
   is left out ranks strictly above a returned one. *)
C13_TopOfAllInWindow ==
    (Answered("getPopularPosts") /\ limitOf(req.limit) >= 1) =>
        LET returned == {res.posts[k].post.id : k \in DOMAIN res.posts}
        IN  /\ Len(res.posts) = Min(limitOf(req.limit), Cardinality(Candidates))
            /\ \A i \in Candidates :
                  db.posts[i].id \notin returned =>
                      \A k \in DOMAIN res.posts :
                          ~RanksAbove(withEngagement(db.posts[i]).engagementMetrics,
                                      res.posts[k].engagementMetrics)

(* A raw parameter that is present and is not of the documented form *)
MalformedPeriod == req.period # undefined /\ req.period \notin Periods

MalformedLimit ==
    /\ req.limit # undefined
    /\ LET n == parseInt(req.limit) IN n.kind # "number" \/ n.value <= 0

(* C14 (as claimed): a request with a malformed period or limit is rejected
   with a validation error (status 400) before any query or computation;
   the input is never replaced by a default. *)
C14_MalformedRejected ==
    (req.endpoint \in Endpoints /\ (MalformedPeriod \/ MalformedLimit)) =>
        /\ locals.stage \in {"received", "responded"}
        /\ res.status \in {NoRes.status, 400}

(* C15 (as claimed): in the three endpoints endDate is now and startDate is
   now minus 1 day, 7 days, 1 calendar month or 1 calendar year for day,
   week, month, year, and the epoch for all; an absent period stands for
   the default of the endpoint. *)
C15_WindowResolution ==
    (req.endpoint \in Endpoints /\ res.status = 200
     /\ (req.period = undefined \/ req.period \in Periods)) =>
        LET period == IF req.period # undefined THEN req.period
                      ELSE IF req.endpoint = "getUserEngagementComparison" THEN "month"
                      ELSE "week"
            from == res.dateRange.from
            to == res.dateRange.to
        IN  /\ to = DateOf(req.today)
            /\ period = "day" => from = to - 1
            /\ period = "week" => from = to - 7
            /\ period = "month" => to - from \in 28..31
            /\ period = "year" => to - from \in 365..366
            /\ period = "all" => from = Epoch /\ Candidates = {i \in DOMAIN db.posts :
                                                                db.posts[i].createdAt <= to}

(* r, in hundredths, is a hundredth nearest to the quotient n / d *)
NearestHundredth(r, n, d) ==
    LET diff == r * d - n * 100
    IN  (IF diff >= 0 THEN diff ELSE -diff) * 2 <= d

(* The sum of a count over a sequence of posts *)
RECURSIVE SumCount(_, _)
SumCount(posts, count) ==
    IF posts = <<>> THEN 0
    ELSE SumCount(Front(posts), count) +
         (CASE count = "likes" -> Last(posts).likes
            [] count = "comments" -> Last(posts).comments
            [] count = "shares" -> Last(posts).shares
            [] count = "views" -> Last(posts).views)

EngagementsIn(posts) ==
    SumCount(posts, "likes") + SumCount(posts, "comments") + SumCount(posts, "shares")

(* rate, in hundredths, is the rate of the engagements over the views:
   0 for no views, else engagements / views * 100 to the nearest hundredth *)
IsRate(rate, engagements, views) ==
    IF views = 0 THEN rate = 0 ELSE NearestHundredth(rate, engagements * 100, views)

(* C16: for every post of a getPopularPosts response totalEngagements =
   likes + comments + shares (the views are not added) and engagementRate is
   totalEngagements / views * 100 (to the hundredth) for views > 0 and
   exactly 0 for views = 0; the same holds of the user's and the platform's
   totals and rates in a getUserEngagementComparison response. *)
C16_EngagementRates ==
    /\ Answered("getPopularPosts") =>
          \A k \in DOMAIN res.posts :
              LET p == res.posts[k].post
                  m == res.posts[k].engagementMetrics
              IN  /\ m.likes = p.likes /\ m.comments = p.comments
                  /\ m.shares = p.shares /\ m.views = p.views
                  /\ m.totalEngagements = p.likes + p.comments + p.shares
                  /\ IsRate(m.engagementRate, m.totalEngagements, p.views)
    /\ Answered("getUserEngagementComparison") =>
          /\ res.userMetrics.totalEngagements = EngagementsIn(locals.userPosts)
          /\ IsRate(res.userMetrics.engagementRate,
                    EngagementsIn(locals.userPosts), SumCount(locals.userPosts, "views"))
          /\ IsRate(res.platformAverages.engagementRate,
                    EngagementsIn(locals.allPosts), SumCount(locals.allPosts, "views"))

(* A response with a post that has engagements and no views (rate 0) and a
   post whose rate is rounded (2 / 3 * 100 = 66.67) *)
C16_Witness ==
    /\ Answered("getPopularPosts")
    /\ \E k \in DOMAIN res.posts :
          /\ res.posts[k].engagementMetrics.views = 0
          /\ res.posts[k].engagementMetrics.totalEngagements > 0
          /\ res.posts[k].engagementMetrics.engagementRate = 0
    /\ \E k \in DOMAIN res.posts :
          /\ res.posts[k].engagementMetrics.views = 3
          /\ res.posts[k].engagementMetrics.engagementRate = 6667

(* C17: with a non-empty list of per-author rates, sorted ascending,
   percentileRank is the index of the first rate >= the target's rate (the
   number of rates below the target's, the first of equal rates being
   taken) divided by the length of the list, times 100, and 100 when no
   rate is >= the target's. *)
C17_PercentileLinearScan ==
    (Answered("getUserEngagementComparison") /\ Len(locals.allUserEngagementRates) > 0) =>
        LET rates == locals.allUserEngagementRates
            target == locals.userEngagementRate
            authors == locals.userPostsMap
            below == Cardinality({i \in DOMAIN rates : RateLess(rates[i], target)})
            sameRate(a, b) == RateLeq(a, b) /\ RateLeq(b, a)
        IN  /\ \A i, j \in DOMAIN rates : i < j => RateLeq(rates[i], rates[j])
            /\ Len(rates) = Len(authors)
            /\ \A i \in DOMAIN authors : \A j \in DOMAIN authors :
                  i # j => authors[i].userId # authors[j].userId
            /\ \A i \in DOMAIN rates :
                  Cardinality({j \in DOMAIN rates : sameRate(rates[j], rates[i])}) =
                  Cardinality({a \in DOMAIN authors :
                                  sameRate(rateOf(authors[a].engagements, authors[a].views),
                                           rates[i])})
            /\ res.userMetrics.percentileRank =
                  IF below < Len(rates) THEN toFixed2(below * 100, Len(rates)) ELSE 100 * 100

(* Three authors, one below the target and one with the target's rate *)
C17_Witness ==
    /\ Answered("getUserEngagementComparison")
    /\ Len(locals.allUserEngagementRates) = 3
    /\ RateLess(locals.allUserEngagementRates[1], locals.userEngagementRate)
    /\ ~RateLess(locals.allUserEngagementRates[2], locals.userEngagementRate)
    /\ ~RateLess(locals.userEngagementRate, locals.allUserEngagementRates[3])
    /\ res.userMetrics.percentileRank = 3333

(* The posts of the store that a getTrendingTopics request looks at *)
PostsInWindow ==
    {i \in DOMAIN db.posts :
        /\ db.posts[i].createdAt >= res.dateRange.from
        /\ db.posts[i].createdAt <= res.dateRange.to}

(* The number of occurrences of the token text in a post: the places of
   its content where the marker is followed by a longest non-empty run of
   characters of the class and the two together spell text, and the entries
   of its tag list that spell text after "#" *)
TokenAt(content, i, j, marker, cls) ==
    /\ content[i] = marker
    /\ j > i
    /\ \A k \in (i + 1)..j : content[k] \in cls
    /\ j < Len(content) => content[j + 1] \notin cls

Occurrences(p, text) ==
    Cardinality({i \in DOMAIN p.content :
                    \E j \in DOMAIN p.content :
                        /\ \/ TokenAt(p.content, i, j, "#", HashtagChars)
                           \/ TokenAt(p.content, i, j, "@", MentionChars)
                        /\ SubSeq(p.content, i, j) = text})
    + Cardinality({i \in DOMAIN p.tags : <<"#">> \o p.tags[i] = text})

(* The sum of the values of the function f over the set idx *)
RECURSIVE SumOver(_, _)
SumOver(f, idx) ==
    IF idx = {} THEN 0
    ELSE LET i == CHOOSE x \in idx : TRUE
         IN  f[i] + SumOver(f, idx \ {i})

CountOf(text) ==
    SumOver([i \in PostsInWindow |-> Occurrences(db.posts[i], text)], PostsInWindow)

ScoreOf(text) ==
    SumOver([i \in PostsInWindow |->
                Occurrences(db.posts[i], text)
                    * (db.posts[i].likes + db.posts[i].comments + db.posts[i].shares)],
            PostsInWindow)

(* Every text that can be a token of a post in the window *)
TokenTexts ==
    UNION { {SubSeq(db.posts[i].content, a, b) :
                a \in DOMAIN db.posts[i].content, b \in DOMAIN db.posts[i].content}
            \cup {<<"#">> \o db.posts[i].tags[k] : k \in DOMAIN db.posts[i].tags} :
            i \in PostsInWindow }

(* C18: the topics are keyed by the literal token text; the count of a
   topic is the number of occurrences of its text in the texts and tag
   lists ('#' + tag) of the posts of the window, and its engagementScore
   adds likes + comments + shares of the post once per occurrence; when the
   limit does not cut the list, every token that occurs is a topic. *)
C18_TopicsAccumulate ==
    Answered("getTrendingTopics") =>
        /\ \A a, b \in DOMAIN res.topics : a # b => res.topics[a].text # res.topics[b].text
        /\ \A a \in DOMAIN res.topics :
              /\ res.topics[a].count = CountOf(res.topics[a].text)
              /\ res.topics[a].count >= 1
              /\ res.topics[a].engagementScore = ScoreOf(res.topics[a].text)
        /\ (limitOf(req.limit) >= 1 /\ Len(res.topics) < limitOf(req.limit)) =>
              \A text \in TokenTexts :
                  CountOf(text) >= 1 => \E a \in DOMAIN res.topics : res.topics[a].text = text

(* "great day #sunny #sunny @bob" with engagement 10 gives #sunny with count
   2 and score 20 and @bob with count 1 and score 10 *)
C18_Witness ==
    /\ Answered("getTrendingTopics")
    /\ db.posts = <<SunnyPost(req.today)>>
    /\ \E a \in DOMAIN res.topics :
          res.topics[a] = [text |-> <<"#", "s", "u", "n", "n", "y">>, type |-> "hashtag",
                           count |-> 2, engagementScore |-> 20]
    /\ \E a \in DOMAIN res.topics :
          res.topics[a] = [text |-> <<"@", "b", "o", "b">>, type |-> "mention",
                           count |-> 1, engagementScore |-> 10]
    /\ Len(res.topics) = 2

(* C19 (as claimed): the topics are sorted non-increasing by
   engagementScore, are at most `limit`, and no token left out has a
   strictly greater engagementScore than a returned topic. *)
C19_TopicsSortedAndCut ==
    Answered("getTrendingTopics") =>
        /\ \A a, b \in DOMAIN res.topics :
              a < b => res.topics[a].engagementScore >= res.topics[b].engagementScore
        /\ Len(res.topics) <= limitOf(req.limit)
        /\ \A text \in TokenTexts :
              (CountOf(text) >= 1 /\ \A a \in DOMAIN res.topics : res.topics[a].text # text) =>
                  /\ Len(res.topics) = limitOf(req.limit)
                  /\ \A a \in DOMAIN res.topics : res.topics[a].engagementScore >= ScoreOf(text)

(* C20: averageEngagementRate of getPopularPosts is the mean, to the
   hundredth, of the engagementRate of the returned posts, and 0 when none
   is returned; metrics.totalPosts is the number of returned posts. *)
C20_AverageOverReturned ==
    Answered("getPopularPosts") =>
        LET n == Len(res.posts)
            total == SumOver([k \in DOMAIN res.posts |->
                                 res.posts[k].engagementMetrics.engagementRate],
                             DOMAIN res.posts)
        IN  /\ res.metrics.totalPosts = n
            /\ n = 0 => res.metrics.averageEngagementRate = 0
            /\ n > 0 => NearestHundredth(res.metrics.averageEngagementRate, total, 100 * n)

(* Two posts are returned out of more candidates, and the mean of their
   rates is not the mean over the candidates *)
C20_Witness ==
    /\ Answered("getPopularPosts")
    /\ Len(res.posts) = 2
    /\ Cardinality(Candidates) = 4
    /\ res.posts[1].engagementMetrics.engagementRate # res.posts[2].engagementMetrics.engagementRate
    /\ ~NearestHundredth(res.metrics.averageEngagementRate,
                         SumOver([i \in Candidates |-> engagementRateOf(db.posts[i])],
                                 Candidates),
                         100 * 4)

-----------------------------------------------------------------------------
(* The handler has queried posts or computed a rate *)
QueriedPosts ==
    \/ locals.stage \in {"userPosts", "allPosts", "grouping"}
    \/ "userPosts" \in DOMAIN locals

(* C21: getUserEngagementComparison for a userId that is not in the store
   answers 404 as soon as the user lookup has answered: the handler leaves
   its first stage only by responding, with 404 (or with the error response
   when the lookup itself is rejected), it never reaches a post query or a
   rate, and once it has answered 404 nothing follows: the lookup is not
   made again and the response stays. *)
C21_UnknownUserNotFound ==
    [][(req.endpoint = "getUserEngagementComparison" /\ req.userId \notin db.users) =>
          /\ ~QueriedPosts /\ ~QueriedPosts'
          /\ locals.stage = "received" =>
                \/ locals' = locals /\ res' = res
                \/ /\ locals'.stage = "responded"
                   /\ res'.status \in {404, 500}
          /\ res.status = 404 => (res' = res /\ locals' = locals /\ db' = db)
          /\ res'.status = 404 => locals.stage \in {"received", "responded"}]_vars

(* The handler has answered 404 for an unknown user while the store holds
   posts of the window *)
C21_Witness ==
    /\ req.endpoint = "getUserEngagementComparison"
    /\ req.userId = UnknownUser
    /\ res.status = 404
    /\ locals.stage = "responded"
    /\ Len(db.posts) > 0

(* C30 (as claimed): percentileRank lies in [0, 100]; it is 0 when no author
   posted in the window; when the target has a post in the window it is at
   most (n-1)/n * 100 for n ranked authors.  percentileRank is kept in
   hundredths. *)
C30_PercentileRange ==
    Answered("getUserEngagementComparison") =>
        LET rank == res.userMetrics.percentileRank
            n == Len(locals.allUserEngagementRates)
        IN  /\ rank \in 0..(100 * 100)
            /\ locals.allPosts = <<>> => rank = 0
            /\ Len(locals.userPosts) > 0 => rank * n <= (n - 1) * 100 * 100

(* C30 (amended): percentileRank lies in [0, 100] and is 0 when the ranked
   list is empty; when no post is deleted while the handler runs and the
   target has a post in the window, a ranked rate equals the target's and
   percentileRank is at most (n-1)/n * 100 rounded to the hundredth; it is
   100 only when every ranked rate is below the target's, which takes a
   post deleted between the queries of the handler. *)
C30_PercentileRangeRounded ==
    Answered("getUserEngagementComparison") =>
        LET rank == res.userMetrics.percentileRank
            rates == locals.allUserEngagementRates
            target == locals.userEngagementRate
            n == Len(rates)
        IN  /\ rank \in 0..(100 * 100)
            /\ n = 0 => rank = 0
            /\ (deletes = 0 /\ Len(locals.userPosts) > 0) =>
                  /\ \E i \in DOMAIN rates : RateLeq(rates[i], target) /\ RateLeq(target, rates[i])
                  /\ 2 * rank * n <= 2 * (n - 1) * 100 * 100 + n
            /\ rank = 100 * 100 =>
                  /\ n > 0
                  /\ \A i \in DOMAIN rates : RateLess(rates[i], target)
                  /\ deletes > 0

(* Three authors are ranked, nothing was deleted, and the target, strictly
   the best of them, gets 66.67 *)
C30_Witness ==
    /\ Answered("getUserEngagementComparison")
    /\ deletes = 0
    /\ Len(locals.userPosts) > 0
    /\ Len(locals.allUserEngagementRates) = 3
    /\ \A i \in 1..2 : RateLess(locals.allUserEngagementRates[i], locals.userEngagementRate)
    /\ res.userMetrics.percentileRank = 6667

-----------------------------------------------------------------------------
(* C24: a reader whose freshness check finds the cache fresh never waits: its
   call awaits no promise, its return is possible in every state, also while
   a fetch is in flight, and it returns the view of the cache as it is; a
   call waits only on the promise of the fetch it started or of the fetch
   that was in flight when it joined, and returns only once that one has
   settled. *)
C24_FreshReaderNeverWaits ==
    /\ [](\A c \in Outstanding : c.pc = "hit" => ENABLED ReturnHit(c))
    /\ [][/\ \A c \in CallRecords :
                (Called(c) /\ ~c.forced /\ isCacheFresh) =>
                    c.pc = "hit" /\ c.role = "none" /\ c.awaiting = 0
          /\ \A c \in CallRecords :
                (Called(c) /\ c.pc = "waiting") =>
                    /\ c.awaiting = refreshPromise' /\ c.awaiting \in Promises
                    /\ promiseState'[c.awaiting] = "pending"
                    /\ c.role = "joiner" <=> refreshPromise = c.awaiting
                    /\ c.role = "starter" <=>
                          (refreshPromise = 0 /\ promiseState[c.awaiting] = "unborn")
          /\ \A c \in Outstanding :
                /\ (c.pc = "hit" /\ Completed(c)) =>
                      /\ ret'.kind \in Accessors
                      /\ ret'.status = "ok"
                      /\ ret'.value = viewOf(ret'.kind)
                      /\ cache' = cache /\ promiseState' = promiseState
                /\ (c.pc = "waiting" /\ Completed(c)) => Settled(c.awaiting)]_vars

(* A reader has returned from a cache hit while the forced refresh of the
   background loop is in flight *)
C24_Witness ==
    /\ ret.kind \in Accessors /\ ret.role = "none" /\ ret.status = "ok"
    /\ ret.value # <<>>
    /\ \E p \in InFlight : \E c \in Outstanding : c.forced /\ c.awaiting = p

(* The views a DataService that was just constructed computes in its first
   refresh when the fetch resolves with data *)
FirstViewsOf(data) == performRefreshOk(InitCache, data, 0).computed

(* C25: the views after a successful refresh are a function of the fetched
   snapshot alone: whatever the cache held before and however many refreshes
   went before, they are the views a first refresh computes from the same
   users, posts and comments; so refreshes that fetch equal data leave equal
   views, and a refresh that fetches the data already held leaves the views
   as they were. *)
C25_ViewsOfSnapshotOnly ==
    [][\A p \in Promises :
          Succeeds(p) =>
              /\ cache'.rawData \in UpstreamSnapshots
              /\ cache'.computed = FirstViewsOf(cache'.rawData)
              /\ (cache.lastFetched > 0 /\ cache'.rawData = cache.rawData) =>
                     cache'.computed = cache.computed]_vars

(* The second refresh has fetched the smaller snapshot, at a later time than
   the first one, and the views are those of a first refresh of it *)
C25_Witness ==
    /\ promiseState[1] \in {"ok", "collected"}
    /\ \E p \in Promises : p > 1 /\ promiseState[p] = "ok"
    /\ cache.lastFetched > StartTime
    /\ cache.rawData = SnapshotA
    /\ cache.computed = FirstViewsOf(SnapshotA)
    /\ cache.computed # FirstViewsOf(SnapshotB)

(* The call that created the promise p has not yet resumed *)
StarterPending(p) == \E c \in Outstanding : c.role = "starter" /\ c.awaiting = p

(* C27: the guard is non-null only while the fetch of its promise is in
   flight or the promise has settled and the call that created it has not
   yet run its finally block; when that call resumes, after success or
   failure, the guard is null again; a forced or stale-cache call that finds
   the guard null creates a new promise and starts its fetch; and, every
   fetch completing eventually, every promise that was pending is in the end
   settled, released by the guard and awaited by no call, and every call
   that waited has returned. *)
C27_GuardReleased ==
    /\ [](refreshPromise # 0 =>
            \/ promiseState[refreshPromise] = "pending"
            \/ Settled(refreshPromise) /\ StarterPending(refreshPromise))
    /\ [][/\ \A c \in Outstanding :
                (Completed(c) /\ c.role = "starter") => refreshPromise' = 0
          /\ \A c \in CallRecords :
                (Called(c) /\ refreshPromise = 0 /\ (c.forced \/ ~isCacheFresh)) =>
                    /\ c.role = "starter" /\ c.pc = "waiting"
                    /\ promiseState[c.awaiting] = "unborn"
                    /\ promiseState'[c.awaiting] = "pending"
                    /\ refreshPromise' = c.awaiting]_vars
    /\ [](\A p \in Promises :
            promiseState[p] = "collected" =>
                refreshPromise # p /\ \A c \in Outstanding : c.awaiting # p)
    /\ \A p \in Promises :
          (promiseState[p] = "pending") ~> (promiseState[p] = "collected")

(* The first refresh has failed and its guard is released while a call that
   joined it has yet to resume; the second refresh is in flight *)
C27_Witness ==
    /\ promiseState[1] \in Errors
    /\ refreshPromise = 2
    /\ promiseState[2] = "pending"
    /\ \E c \in Outstanding : c.role = "joiner" /\ c.awaiting = 1
    /\ StarterPending(2)

(* C26: an accessor that returns successfully returns a view of a snapshot
   that a refresh has stored (lastFetched > 0, never the initial empty
   views).  If its freshness check found the cache fresh, the snapshot was
   less than CACHE_DURATION old at the check: the return follows the check
   with neither the clock nor the cache changing in between.  Otherwise the
   promise it awaited was pending when it called and has resolved, and the
   snapshot is the one that refresh stored, at the present clock reading. *)
C26_BoundedStaleness ==
    [][/\ \A c \in Outstanding :
             (Completed(c) /\ ret'.kind \in Accessors /\ ret'.status = "ok") =>
                 /\ cache.lastFetched > 0
                 /\ cache # InitCache
                 /\ ret'.value = viewOf(ret'.kind)
                 /\ cache' = cache
                 /\ IF c.pc = "hit"
                    THEN now - cache.lastFetched < CACHE_DURATION
                    ELSE promiseState[c.awaiting] = "ok" /\ cache.lastFetched = now
       /\ \A c \in CallRecords :
             Called(c) =>
                 IF c.pc = "hit"
                 THEN cache.lastFetched > 0 /\ now - cache.lastFetched < CACHE_DURATION
                 ELSE promiseState'[c.awaiting] = "pending"
       /\ (\E c \in Outstanding : c.pc = "hit") => (now' = now /\ cache' = cache)]_vars

(* A reader whose check, made after the first refresh was over, did not find
   the cache fresh has started the second refresh and returned the view it
   stored *)
C26_Witness ==
    /\ ret.kind \in Accessors /\ ret.role = "starter" /\ ret.status = "ok"
    /\ promiseState[1] = "collected"
    /\ cache.lastFetched = now
    /\ now >= StartTime + CACHE_DURATION
    /\ ret.value = viewOf(ret.kind)

(* C23: once started the loop never stops; whenever a tick is due the
   interval callback can run, readers or not, cache fresh or not, after a
   failed refresh as after a successful one; it runs no earlier than
   CACHE_DURATION after its previous run, always calls refreshData(true),
   which never returns at once, joins the refresh in flight and otherwise
   starts one; a background refresh that fails is caught: the step that
   delivers the failure leaves the timer, the next tick and the cache as
   they are and starts no fetch, so the next fetch of the loop is that of
   the next tick that finds the guard null. *)
C23_BackgroundLoop ==
    /\ [](timerOn /\ nextTick <= now + CACHE_DURATION)
    /\ []((now >= nextTick /\ Room /\ ~Draining /\ (refreshPromise # 0 \/ Unborn # {}))
            => ENABLED BackgroundTick)
    /\ [][/\ \A c \in CallRecords :
                (Called(c) /\ c.forced) =>
                    /\ now >= nextTick
                    /\ nextTick' = now + CACHE_DURATION
                    /\ c.pc = "waiting"
                    /\ IF refreshPromise # 0
                       THEN c.role = "joiner" /\ c.awaiting = refreshPromise
                       ELSE /\ c.role = "starter"
                            /\ promiseState[c.awaiting] = "unborn"
                            /\ promiseState'[c.awaiting] = "pending"
          /\ \A c \in Outstanding :
                (Completed(c) /\ c.forced) =>
                    /\ ret'.kind = "background"
                    /\ nextTick' = nextTick /\ cache' = cache
                    /\ ret'.status = "err" => ret'.value = promiseState[c.awaiting]
                    /\ \A p \in Promises : promiseState'[p] = "pending" => promiseState[p] = "pending"
          /\ nextTick' # nextTick => \E c \in CallRecords : Called(c) /\ c.forced]_vars

(* A refresh that the loop started has failed and the failure has been
   logged; no fetch is in flight and the next tick is not yet due *)
C23_Witness ==
    /\ ret.kind = "background" /\ ret.role = "starter" /\ ret.status = "err"
    /\ ret.value \in Errors
    /\ timerOn
    /\ refreshPromise = 0 /\ InFlight = {}
    /\ now < nextTick

(* C28 (as claimed): while the background loop runs and every upstream fetch
   succeeds, after the first successful refresh no reader call starts an
   upstream fetch. *)
C28_ReadersNeverFetch ==
    [][\A c \in CallRecords :
          (Called(c) /\ ~c.forced /\ timerOn /\ cache.lastFetched > 0) =>
              c.role # "starter"]_vars

(* C28 (amended): while the background loop runs and every upstream fetch
   succeeds, after the first successful refresh a reader call made while no
   tick is due starts no upstream fetch: it hits the fresh cache or joins
   the fetch in flight; a reader call that starts a fetch is made at or
   after the time the next tick is due, before the interval callback ran,
   and finds a cache that was stored CACHE_DURATION or more ago. *)
C28_ReadersNeverFetchBeforeTick ==
    [][\A c \in CallRecords :
          (Called(c) /\ ~c.forced /\ timerOn /\ cache.lastFetched > 0) =>
              /\ now < nextTick => c.role # "starter"
              /\ c.role = "starter" =>
                    (now >= nextTick /\ now - cache.lastFetched >= CACHE_DURATION)
              /\ c.pc = "hit" <=> isCacheFresh]_vars

(* After the first refresh a reader has found the cache stale and joined the
   fetch that the tick before it started *)
C28_Witness ==
    /\ cache.lastFetched > 0
    /\ ~isCacheFresh
    /\ now < nextTick
    /\ \E p \in InFlight :
          /\ \E c \in Outstanding : c.forced /\ c.role = "starter" /\ c.awaiting = p
          /\ \E c \in Outstanding : ~c.forced /\ c.role = "joiner" /\ c.awaiting = p

(* C22: every authenticatedGet tests the token before anything is sent: a
   GET is sent at once only with a token that is held and more than
   TOKEN_BUFFER before its expiry, and carries that token; otherwise (no
   token, or a token within TOKEN_BUFFER of its expiry or past it) POST
   /auth is sent first, and the GET that follows carries the token of the
   response; when the authentication fails no GET is sent and the
   fetchAllData call, hence the refresh awaiting it, is rejected. *)
C22_TokenCheckedBeforeGet ==
    /\ [](\A x \in ApiCalls \X ApiEndpoints :
            /\ gets[x].pc \in {"getting", "done"} => gets[x].bearer # 0
            /\ gets[x].bearer <= authToken)
    /\ [][\A k \in ApiCalls :
            (fetchAll[k].status = "pending" /\ fetchAll'[k].status = "ok") =>
                \A ep \in ApiEndpoints : gets'[k, ep].pc = "done" /\ gets'[k, ep].bearer # 0]_vars
    /\ [][\A x \in ApiCalls \X ApiEndpoints :
            /\ (gets[x].pc = "idle" /\ gets'[x].pc # "idle") =>
                  IF authToken # 0 /\ now < tokenExpiry - TOKEN_BUFFER
                  THEN gets'[x] = [pc |-> "getting", bearer |-> authToken]
                  ELSE gets'[x] = [pc |-> "authenticating", bearer |-> 0]
            /\ (gets[x].pc # "getting" /\ gets'[x].pc = "getting") =>
                  /\ gets[x].pc \in {"idle", "authenticating"}
                  /\ gets[x].pc = "authenticating" =>
                        /\ authToken' # authToken
                        /\ gets'[x].bearer = authToken'
                        /\ tokenExpiry' > now
            /\ (gets[x].pc = "authenticating" /\ gets'[x].pc = "failed") =>
                  /\ gets'[x].bearer = 0
                  /\ fetchAll'[x[1]].status \in Errors
                  /\ fetchAll[x[1]].status = "pending" => fetchAll'[x[1]].status = "AuthError"
                  /\ authToken' = authToken /\ tokenExpiry' = tokenExpiry]_vars

(* A fetchAllData call found the token that an earlier call had left within
   TOKEN_BUFFER of its expiry, though not yet expired, authenticated again
   and sent a GET with a newer token *)
C22_Witness ==
    \E k \in ApiCalls, ep \in ApiEndpoints :
        /\ fetchAll[k].status = "pending"
        /\ fetchAll[k].auths > 0
        /\ gets[k, ep].pc = "getting"
        /\ gets[k, ep].bearer = authToken
        /\ authToken > Cardinality(ApiEndpoints)

(* C29: a fetchAllData call made while no valid token is held sends exactly
   one POST /auth, and a call made with a valid token sends none. *)
C29_OneAuthPerFetch ==
    \A k \in ApiCalls :
        fetchAll[k].status # "unborn" => fetchAll[k].auths <= 1

====
